---- MODULE Spec2Model ----
(***************************************************************************)
(* HexoSynth DSP core: ProcBuf sample buffers, the node_list registry      *)
(* (NodeId / ParamId / NodeInfo), parameter normalisation curves and the   *)
(* Sin and Out nodes, modelled from src/src/dsp/.                          *)
(*                                                                         *)
(* f32 values are binary floating point numbers [m |-> significand,        *)
(* e |-> exponent], value m * 2^e, with a significand of MantBits = 24     *)
(* bits, subnormal numbers, signed zeros, infinities and NaN.  Every       *)
(* operation rounds to nearest, ties to even.  Products and quotients are  *)
(* computed in limbs so that no intermediate value leaves the 32 bit       *)
(* integers.  f32::log2 and f32::powf have unspecified precision: they are *)
(* computed with WideBits bits and return the f32 below or the f32 above   *)
(* the result; which of the two, input by input, is the libm the program   *)
(* runs with.                                                              *)
(***************************************************************************)
EXTENDS FiniteSets, Integers, Sequences, TLC

(***************************************************************************)
(* State                                                                   *)
(***************************************************************************)
VARIABLES
    heap,       \* ProcBuf backing blocks: block id -> [st, data]
    bufs,       \* ProcBuf handles held by the program: slot -> pointer
    released,   \* block id -> times Box::from_raw(ptr) was dropped (2: more)
    bufRet,     \* <<v>>: the value the call just made returned, if a read
    fault,      \* "none", or the contract violation the last call ran into
    crashed,    \* the process was terminated (panic or fatal signal)
    node,       \* the Node instance of a graph slot
    atoms,      \* its atoms: &[SAtom]
    inputs,     \* its input buffers: &[ProcBuf]
    outputs,    \* its output buffers: &mut [ProcBuf]
    ctx,        \* the NodeAudioContext of the last block
    led,        \* its feedback slots: LedPhaseVals
    pc,         \* the router's position in the block cycle
    call,       \* a call of a lookup or conversion function: [fn, ...]
    ret,        \* the values it returned so far
    scope,      \* a monitor of the node's output signal
    libm        \* how the platform's libm rounds: function name -> [dir, flipped]

bufVars == <<heap, bufs, released, bufRet>>

nodeVars == <<node, atoms, inputs, outputs, ctx, led, pc, scope>>

callVars == <<call, ret>>

vars == <<heap, bufs, released, bufRet, fault, crashed,
          node, atoms, inputs, outputs, ctx, led, pc, call, ret, scope,
          libm>>

\* the directions an inexact libm result is rounded in
Roundings == {"down", "up"}

\* a function of the libm rounds its inexact results in the direction dir,
\* and in the other direction for the inputs in flipped
LibmFns(dirs, flips) == {[dir |-> d, flipped |-> s] : d \in dirs, s \in flips}

LibmRounds(f, x) ==
    IF x \in f.flipped THEN CHOOSE d \in Roundings : d # f.dir ELSE f.dir

\* a function that rounds every input in the same direction
UniformFns == LibmFns(Roundings, {{}})

\* the libm of a program that calls neither log2 nor powf
LibmIdle == libm = <<>>

(***************************************************************************)
(* f32 arithmetic                                                          *)
(***************************************************************************)
\* bits of an f32 significand (the hidden bit included)
MantBits == 24

\* bits of the significand log2 and powf work with before they round
WideBits == MantBits + 5

\* exponents of the last place of the largest and of the smallest f32
MaxExp == 128 - MantBits

MinExp == -125 - MantBits

\* the exponent field that marks infinities and NaN
InfExp == MaxExp + MantBits

Pow2(k) == 2 ^ k

\* e, with v evaluated first (the value is e either way)
Strict(v, e) == IF v # v THEN v ELSE e

IAbs(n) == IF n < 0 THEN -n ELSE n

ISign(n) == IF n < 0 THEN -1 ELSE 1

BitLen4(n) == IF n >= 8 THEN 4 ELSE IF n >= 4 THEN 3 ELSE IF n >= 2 THEN 2 ELSE n

BitLen8(n) == IF n >= 16 THEN 4 + BitLen4(n \div 16) ELSE BitLen4(n)

BitLen16(n) == IF n >= 256 THEN 8 + BitLen8(n \div 256) ELSE BitLen8(n)

\* number of bits of a natural number below 2^31
BitLen(n) == IF n >= 65536 THEN 16 + BitLen16(n \div 65536) ELSE BitLen16(n)

\* 0.0 and -0.0
FZero == [m |-> 0, e |-> 0]

FNegZero == [m |-> 0, e |-> -1]

\* f32::INFINITY, f32::NEG_INFINITY, f32::NAN
FInf == [m |-> 1, e |-> InfExp]

FNegInf == [m |-> -1, e |-> InfExp]

FNaN == [m |-> 0, e |-> InfExp]

IsNaN(x) == x.e = InfExp /\ x.m = 0

IsInf(x) == x.e = InfExp /\ x.m # 0

IsZero(x) == x.m = 0 /\ x.e # InfExp

\* the sign bit as -1 or 1
FSgn(x) == IF x.m < 0 \/ x = FNegZero THEN -1 ELSE 1

SignedZero(s) == IF s < 0 THEN FNegZero ELSE FZero

SignedInf(s) == [m |-> s, e |-> InfExp]

\* are the kept bits of a incremented when its k >= 1 low bits are dropped;
\* sticky tells that bits below a were lost before.  "even" rounds to
\* nearest, ties to even; "down" and "up" round toward minus and plus
\* infinity
RoundsUp(s, a, k, sticky, mode) ==
    CASE mode = "even" ->
            IF k > 31 THEN FALSE
            ELSE IF k = 31 THEN a > Pow2(30) \/ (a = Pow2(30) /\ sticky)
            ELSE \/ a % Pow2(k) > Pow2(k - 1)
                 \/ /\ a % Pow2(k) = Pow2(k - 1)
                    /\ (sticky \/ (a \div Pow2(k)) % 2 = 1)
      [] mode = "up"   -> s > 0 /\ (sticky \/ k >= 31 \/ a % Pow2(k) # 0)
      [] mode = "down" -> s < 0 /\ (sticky \/ k >= 31 \/ a % Pow2(k) # 0)

\* a without its k low bits
Kept(a, k) == IF k >= 31 THEN 0 ELSE a \div Pow2(k)

\* a significand beyond the largest f32 overflows to an infinity
FRange(s, q, e, p) ==
    IF p = MantBits /\ e > MaxExp THEN SignedInf(s) ELSE [m |-> s * q, e |-> e]

\* the rounded significand q: a carry out of p bits moves the exponent, an
\* underflow leaves a zero with the sign
FFinish(s, q, e, p) ==
    IF q = 0 THEN SignedZero(s)
    ELSE FRange(s, IF q = Pow2(p) THEN Pow2(p - 1) ELSE q,
                IF q = Pow2(p) THEN e + 1 ELSE e, p)

\* k bits of a are dropped; k <= 0 shifts a up by -k bits
FRoundAt(s, a, e, k, sticky, p, mode) ==
    IF k <= 0 THEN FRange(s, a * Pow2(-k), e + k, p)
    ELSE FFinish(s, Kept(a, k) + (IF RoundsUp(s, a, k, sticky, mode) THEN 1 ELSE 0),
                 e + k, p)

\* bits to drop from the b bits of a significand at exponent e to keep p
\* bits and a last place of at least 2^emin
DropBits(b, e, p, emin) == IF b - p >= emin - e THEN b - p ELSE emin - e

\* the float of p bits for s * a * 2^e, a a natural number below 2^31
FRoundTo(s, a, e, sticky, p, mode, emin) ==
    IF a = 0 THEN FZero
    ELSE FRoundAt(s, a, e, DropBits(BitLen(a), e, p, emin), sticky, p, mode)

\* the exponent of the last place of the smallest number: of an f32, and of
\* the floats log2 and powf work with
EMin(p) == IF p = MantBits THEN MinExp ELSE MinExp - Pow2(20)

\* the result of an operation that works with p bits: normal, subnormal,
\* zero or infinite
FRound(s, a, e, sticky, p) == FRoundTo(s, a, e, sticky, p, "even", EMin(p))

\* the f32 nearest to m * 2^e
FNorm(m, e) == FRound(ISign(m), IAbs(m), e, FALSE, MantBits)

\* a finite float with its significand shifted up to p bits
FNormal(x, p) ==
    FRoundTo(ISign(x.m), IAbs(x.m), x.e, FALSE, p, "even", EMin(WideBits))

FInt(n) == FNorm(n, 0)

FNeg(x) ==
    IF IsNaN(x) THEN x
    ELSE IF x.m = 0 THEN SignedZero(-FSgn(x))
    ELSE [m |-> -x.m, e |-> x.e]

FAbs(x) ==
    IF IsNaN(x) THEN x
    ELSE IF x.m = 0 THEN FZero
    ELSE [m |-> IAbs(x.m), e |-> x.e]

\* the product of two naturals below 2^30 in limbs of 15 bits
MulMid(a, b) == (a \div 32768) * (b % 32768) + (a % 32768) * (b \div 32768)

MulLow(a, b) == (MulMid(a, b) % 32768) * 32768 + (a % 32768) * (b % 32768)

\* a * b = MulHi(a, b) * 2^30 + MulLo(a, b)
MulHi(a, b) ==
    (a \div 32768) * (b \div 32768) + MulMid(a, b) \div 32768
        + MulLow(a, b) \div Pow2(30)

MulLo(a, b) == MulLow(a, b) % Pow2(30)

\* s * (hi * 2^30 + lo) * 2^e rounded to p bits; hi has 30 - sh bits
MulRound(s, hi, lo, sh, e, p) ==
    FRound(s, IF hi = 0 THEN lo ELSE hi * Pow2(sh) + lo \div Pow2(30 - sh),
           IF hi = 0 THEN e ELSE e + 30 - sh,
           hi # 0 /\ lo % Pow2(30 - sh) # 0, p)

MulParts(s, hi, lo, e, p) == MulRound(s, hi, lo, 30 - BitLen(hi), e, p)

\* x * y rounded to p bits, x and y finite
FMulP(x, y, p) ==
    IF x.m = 0 \/ y.m = 0 THEN FZero
    ELSE MulParts(ISign(x.m) * ISign(y.m),
                  MulHi(IAbs(x.m), IAbs(y.m)), MulLo(IAbs(x.m), IAbs(y.m)),
                  x.e + y.e, p)

FMul(x, y) ==
    IF IsNaN(x) \/ IsNaN(y) THEN FNaN
    ELSE IF IsInf(x) \/ IsInf(y)
    THEN (IF IsZero(x) \/ IsZero(y) THEN FNaN ELSE SignedInf(FSgn(x) * FSgn(y)))
    ELSE IF x.m = 0 \/ y.m = 0 THEN SignedZero(FSgn(x) * FSgn(y))
    ELSE FMulP(x, y, MantBits)

\* long division: one step of c quotient bits
DivStep(q, r, d, c) ==
    [q |-> q * Pow2(c) + (r * Pow2(c)) \div d, r |-> (r * Pow2(c)) % d]

\* n more steps in order (evaluated by halving)
RECURSIVE DivBits(_, _, _, _)
DivBits(qr, d, n, c) ==
    Strict(qr,
        IF n = 0 THEN qr
        ELSE IF n = 1 THEN DivStep(qr.q, qr.r, d, c)
        ELSE DivBits(DivBits(qr, d, n \div 2, c), d, n - n \div 2, c))

DivRound(s, qr, e, p) == FRound(s, qr.q, e, qr.r # 0, p)

\* x / y rounded to p bits, x and y finite with significands of p bits, y # 0
FDivP(x, y, p) ==
    IF x.m = 0 THEN FZero
    ELSE DivRound(ISign(x.m) * ISign(y.m),
                  DivBits([q |-> IAbs(x.m) \div IAbs(y.m), r |-> IAbs(x.m) % IAbs(y.m)],
                          IAbs(y.m), 30 \div (30 - p), 30 - p),
                  x.e - y.e - 30, p)

FDiv(x, y) ==
    IF IsNaN(x) \/ IsNaN(y) THEN FNaN
    ELSE IF IsInf(x)
    THEN (IF IsInf(y) THEN FNaN ELSE SignedInf(FSgn(x) * FSgn(y)))
    ELSE IF IsInf(y) THEN SignedZero(FSgn(x) * FSgn(y))
    ELSE IF y.m = 0
    THEN (IF x.m = 0 THEN FNaN ELSE SignedInf(FSgn(x) * FSgn(y)))
    ELSE IF x.m = 0 THEN SignedZero(FSgn(x) * FSgn(y))
    ELSE FDivP(FNormal(x, MantBits), FNormal(y, MantBits), MantBits)

\* the smaller operand of a sum, shifted to the exponent of the larger one
\* less g guard bits
AddLow(b, d, g) ==
    IF d <= g THEN b * Pow2(g - d)
    ELSE IF d - g > 30 THEN 0
    ELSE b \div Pow2(d - g)

AddSticky(b, d, g) == d > g /\ (d - g > 30 \/ b % Pow2(d - g) # 0)

\* hs * a + ls * b, where sticky tells that b is a little larger than given
AddAligned(hs, a, ls, b, sticky, e, p) ==
    FRound(IF hs = ls \/ a >= b THEN hs ELSE ls,
           IF hs = ls THEN a + b
           ELSE IF a < b THEN b - a
           ELSE IF sticky THEN a - b - 1
           ELSE a - b,
           e, sticky, p)

AddOrdered(hi, lo, d, g, p) ==
    AddAligned(ISign(hi.m), IAbs(hi.m) * Pow2(g),
               ISign(lo.m), AddLow(IAbs(lo.m), d, g),
               AddSticky(IAbs(lo.m), d, g), hi.e - g, p)

\* x + y rounded to p bits, x and y finite with significands of at most p bits
FAddP(x, y, p) ==
    IF x.m = 0 THEN y
    ELSE IF y.m = 0 THEN x
    ELSE IF x.e >= y.e THEN AddOrdered(x, y, x.e - y.e, 30 - p, p)
    ELSE AddOrdered(y, x, y.e - x.e, 30 - p, p)

FAdd(x, y) ==
    IF IsNaN(x) \/ IsNaN(y) THEN FNaN
    ELSE IF IsInf(x) THEN (IF IsInf(y) /\ x # y THEN FNaN ELSE x)
    ELSE IF IsInf(y) THEN y
    ELSE IF x.m = 0 /\ y.m = 0
    THEN (IF x = FNegZero /\ y = FNegZero THEN FNegZero ELSE FZero)
    ELSE FAddP(x, y, MantBits)

FSub(x, y) == FAdd(x, FNeg(y))

\* the literal num/den as an f32
FRat(num, den) == FDiv(FInt(num), FInt(den))

\* sign of x - y for x and y that are not NaN
FCmp(x, y) ==
    IF x.m = 0 THEN (IF y.m > 0 THEN -1 ELSE IF y.m < 0 THEN 1 ELSE 0)
    ELSE IF y.m = 0 THEN ISign(x.m)
    ELSE IF ISign(x.m) # ISign(y.m) THEN ISign(x.m)
    ELSE IF x.e > y.e THEN ISign(x.m)
    ELSE IF x.e < y.e THEN -ISign(x.m)
    ELSE IF x.m > y.m THEN 1 ELSE IF x.m < y.m THEN -1 ELSE 0

\* x < y, x <= y: false when an operand is NaN
FLt(x, y) == ~IsNaN(x) /\ ~IsNaN(y) /\ FCmp(x, y) < 0

FLe(x, y) == ~IsNaN(x) /\ ~IsNaN(y) /\ FCmp(x, y) <= 0

\* f32::max: the other operand when one is NaN
FMax(x, y) ==
    IF IsNaN(x) THEN y
    ELSE IF IsNaN(y) THEN x
    ELSE IF FLt(x, y) THEN y ELSE x

\* f32::trunc as an integer (`as i64` of a float below 2^31; NaN gives 0)
FTruncInt(x) ==
    IF IsNaN(x) THEN 0
    ELSE IF x.e >= 0 THEN x.m * Pow2(x.e)
    ELSE IF -x.e >= MantBits THEN 0
    ELSE ISign(x.m) * (IAbs(x.m) \div Pow2(-x.e))

\* f32::round as an integer: half rounds away from zero
FRoundInt(x) ==
    IF IsNaN(x) THEN 0
    ELSE IF x.e >= 0 THEN x.m * Pow2(x.e)
    ELSE IF -x.e > MantBits THEN 0
    ELSE ISign(x.m) * ((IAbs(x.m) + Pow2(-x.e - 1)) \div Pow2(-x.e))

\* f32::fract: x - x.trunc()
FFract(x) ==
    IF x.e = InfExp THEN FNaN
    ELSE IF x.e >= 0 THEN FZero
    ELSE IF -x.e >= MantBits THEN x
    ELSE FNorm(ISign(x.m) * (IAbs(x.m) % Pow2(-x.e)), x.e)

\* bits 2i+1, 2i of the radicand rad * 4^13, counted from the top (i = 1)
SqrtPair(rad, i) == IF i > 13 THEN 0 ELSE (rad \div Pow2(2 * (13 - i))) % 4

\* the square root digit by digit: one more digit of the root, and what is
\* left
SqrtStep(root, rem, pair) ==
    IF 4 * rem + pair >= 4 * root + 1
    THEN [q |-> 2 * root + 1, r |-> 4 * rem + pair - (4 * root + 1)]
    ELSE [q |-> 2 * root, r |-> 4 * rem + pair]

\* the digits lo .. hi - 1 of the root of rad * 4^13 in order (evaluated by
\* halving)
RECURSIVE SqrtBits(_, _, _, _)
SqrtBits(qr, rad, lo, hi) ==
    Strict(qr,
        IF lo >= hi THEN qr
        ELSE IF hi = lo + 1 THEN SqrtStep(qr.q, qr.r, SqrtPair(rad, lo))
        ELSE SqrtBits(SqrtBits(qr, rad, lo, (lo + hi) \div 2), rad, (lo + hi) \div 2, hi))

\* the square root of a positive float with a significand of MantBits bits
SqrtNormal(x) ==
    DivRound(1, SqrtBits([q |-> 0, r |-> 0], x.m * (IF x.e % 2 = 0 THEN 4 ELSE 2), 1, 27),
             (IF x.e % 2 = 0 THEN x.e - 2 ELSE x.e - 1) \div 2 - 13, MantBits)

\* f32::sqrt
FSqrt(x) ==
    IF IsNaN(x) \/ x.m < 0 THEN FNaN
    ELSE IF x.m = 0 \/ IsInf(x) THEN x
    ELSE SqrtNormal(FNormal(x, MantBits))

\* a finite float as a float of WideBits bits
FWide(x) == FNormal(x, WideBits)

\* the f32 next to a float of WideBits bits in the direction of mode
FNarrow(x, mode) ==
    FRoundTo(ISign(x.m), IAbs(x.m), x.e, FALSE, MantBits, mode, MinExp)

WInt(n) == FRound(ISign(n), IAbs(n), 0, FALSE, WideBits)

WMul(x, y) == FMulP(x, y, WideBits)

WDiv(x, y) == FDivP(x, y, WideBits)

WAdd(x, y) == FAddP(x, y, WideBits)

\* ln 2 and 2 / ln 2
LN2 == [m |-> 372130559, e |-> -29]

TWO_OVER_LN2 == [m |-> 387270501, e |-> -27]

\* the least f32 significand above sqrt(2) * 2^23
SQRT2_MANT == 11863284

\* 1 + t/3 + t^2/5 + ... + t^6/13, from the last term
RECURSIVE AtanhSeries(_, _, _)
AtanhSeries(t, k, acc) ==
    Strict(acc,
        IF k < 1 THEN acc
        ELSE AtanhSeries(t, k - 2, WAdd(WDiv(WInt(1), WInt(k)), WMul(t, acc))))

\* log2(c) = 2/ln 2 * atanh(s), s = (c - 1) / (c + 1), for c near 1
Log2Near1(s) == WMul(TWO_OVER_LN2, WMul(s, AtanhSeries(WMul(s, s), 13, FZero)))

Log2Mant(c) == Log2Near1(WDiv(WAdd(c, WInt(-1)), WAdd(c, WInt(1))))

\* log2 of a positive float x = c * 2^n with a significand of MantBits bits,
\* c in [sqrt(1/2), sqrt(2)), as a float of WideBits bits
Log2Split(x, k) == WAdd(WInt(x.e + k), Log2Mant(FWide([m |-> x.m, e |-> -k])))

Log2Wide(x) == Log2Split(x, IF x.m < SQRT2_MANT THEN MantBits - 1 ELSE MantBits)

\* f32::log2.  Its precision is unspecified: the result is the f32 below or
\* the f32 above the logarithm, as the libm at hand has it for x; an exact
\* logarithm is returned as it is
FLog2(x) ==
    IF IsNaN(x) \/ x.m < 0 THEN FNaN
    ELSE IF x.m = 0 THEN FNegInf
    ELSE IF IsInf(x) THEN x
    ELSE FNarrow(Log2Wide(FNormal(x, MantBits)), LibmRounds(libm.log2, x))

\* is log2 of the positive finite x between two f32
Log2Inexact(x) ==
    FNarrow(Log2Wide(FNormal(x, MantBits)), "down")
        # FNarrow(Log2Wide(FNormal(x, MantBits)), "up")

\* the numerator of 1 + z + z^2 / 2! + ... + z^n / n! over the denominator
\* n!, from its highest term: c = n! / k! is the coefficient of z^k
RECURSIVE ExpSeries(_, _, _, _)
ExpSeries(z, k, c, acc) ==
    Strict(acc,
        IF k < 1 THEN [num |-> acc, den |-> c]
        ELSE ExpSeries(z, k - 1, c * k, WAdd(WMul(acc, z), WInt(c * k))))

ExpQuot(r) == Strict(r, WDiv(r.num, WInt(r.den)))

\* e^z for z in [-ln(2)/2, ln(2)/2] by the terms up to z^10 / 10!
ExpSum(z) == Strict(z, ExpQuot(ExpSeries(z, 10, 1, WInt(1))))

\* 2^f for f in [-1/2, 1/2]
Exp2Frac(f) == IF f.m = 0 THEN WInt(1) ELSE ExpSum(WMul(FWide(f), LN2))

Exp2Scale(x, n) == [m |-> x.m, e |-> x.e + n]

\* 2^y = 2^n * 2^(y - n), n the integer nearest to y, as a float of WideBits
\* bits
Exp2Wide(y, n) == Exp2Scale(Exp2Frac(FSub(y, FInt(n))), n)

\* (2.0_f32).powf(y).  Its precision is unspecified: the result is the f32
\* below or the f32 above the power, as the libm at hand has it for y; an exact
\* power is returned as it is.  Beyond 2^128 the result is infinite, below
\* 2^-150 it is zero
FExp2(y) ==
    IF IsNaN(y) THEN FNaN
    ELSE IF FLe(FInt(256), y) THEN FInf
    ELSE IF FLe(y, FInt(-256)) THEN FZero
    ELSE FNarrow(Exp2Wide(y, FRoundInt(y)), LibmRounds(libm.powf, y))

\* is 2^y between two f32, y finite
Exp2Inexact(y) ==
    FNarrow(Exp2Wide(y, FRoundInt(y)), "down") # FNarrow(Exp2Wide(y, FRoundInt(y)), "up")

\* the log2 and the powf of a program that calls them with these inputs: one
\* libm function for each way of rounding the inexact results
Log2Fns(xs) == LibmFns({"down"}, SUBSET {x \in xs : Log2Inexact(x)})

PowfFns(ys) == LibmFns({"down"}, SUBSET {y \in ys : Exp2Inexact(y)})


(***************************************************************************)
(* Bounds                                                                  *)
(***************************************************************************)
MaxBlocks == 1      \* ProcBuf::new() calls per run
MaxHandles == 2     \* handle slots holding ProcBuf values
MaxFramesLow == 1   \* frame counts 0 .. MaxFramesLow are sampled besides 128
MaxFreeWords == 4   \* samples a released block loses to the allocator at its start
NormDen == 100      \* normalized values are sampled in steps of 1 / NormDen
MaxInst == 1        \* low instance numbers of the sampled NodeIds
MaxSkip == 2        \* skip counts handed to get_node_ids: 0 .. MaxSkip
MaxDefaults == 2    \* default_of calls in a row on one SAtom
MaxIdx == 7         \* indices handed to the lookups: 0 .. MaxIdx
MaxSinBlocks == 2   \* blocks a Sin node processes per run

(***************************************************************************)
(* ProcBuf  (src/src/dsp/mod.rs)                                           *)
(***************************************************************************)
MAX_BLOCK_SIZE == 128

BlockIdx == 0 .. (MAX_BLOCK_SIZE - 1)

Blocks == 1 .. MaxBlocks

Handles == 1 .. MaxHandles

FHalf == [m |-> 8388608, e |-> -24]

FOne == [m |-> 8388608, e |-> -23]

SampleVals == {FZero, FHalf}

\* a word of memory that is no block of the program, read as an f32: any of
\* the 2^32 bit patterns (an allocator pointer or key, data of a later
\* owner).  It stands for all of them and is no operand of the arithmetic
AnyWord == [m |-> 0, e |-> InfExp + 1]

\* what a read of released memory gives: a sample the program stored there,
\* or any word
StaleVals == SampleVals \cup {AnyWord}

\* indices passed to read / write: the first one, the last one, and one
\* beyond the block
SampleIdx == {0, MAX_BLOCK_SIZE - 1, MAX_BLOCK_SIZE}

ConstSlice(n, v) == [i \in 1 .. n |-> v]

SampleSlices ==
    {<<>>} \cup {<<v>> : v \in SampleVals}
    \cup {ConstSlice(MAX_BLOCK_SIZE, FHalf), ConstSlice(MAX_BLOCK_SIZE + 1, FHalf)}

\* std::ptr::null_mut()
NullPtr == 0

\* a handle slot that holds no ProcBuf value yet
NoBuf == -1

\* ProcBuf::new: Box::new([0.0; MAX_BLOCK_SIZE])
ZeroBlock == [i \in BlockIdx |-> FZero]

\* ProcBuf::null
ProcBuf_null == NullPtr

\* the pointer has a live backing block
Backed(hp, p) == p \in DOMAIN hp /\ hp[p].st = "live"

\* what dereferencing p amounts to
DerefKind(hp, p) ==
    IF p = NullPtr THEN "null_deref"
    ELSE IF hp[p].st = "live" THEN "none"
    ELSE "dangling_deref"

\* ProcBuf::read on a backed pointer
ProcBuf_read(hp, p, idx) == hp[p].data[idx]

\* a write that stores into every element of the block
ProcBuf_write_all(hp, p, idx, v) == [hp EXCEPT ![p].data = [i \in BlockIdx |-> v]]

\* ProcBuf::write on a backed pointer
ProcBuf_write(hp, p, idx, v) == [hp EXCEPT ![p].data[idx] = v]

\* ProcBuf::fill on a backed pointer
ProcBuf_fill(hp, p, v) == [hp EXCEPT ![p].data = [i \in BlockIdx |-> v]]

\* ProcBuf::write_from on a backed pointer, Len(slice) <= MAX_BLOCK_SIZE
ProcBuf_write_from(hp, p, slice) ==
    [hp EXCEPT ![p].data =
        [i \in BlockIdx |-> IF i < Len(slice) THEN slice[i + 1] ELSE @[i]]]

\* ProcBuf::free: the pointer is dropped unless it is null
ProcBuf_free_drops(p) == p # NullPtr

FreshBlock == CHOOSE b \in Blocks : heap[b].st = "unalloc"
                  /\ \A c \in Blocks : heap[c].st = "unalloc" => b <= c

BufInit ==
    /\ heap = [b \in Blocks |-> [st |-> "unalloc", data |-> ZeroBlock]]
    /\ bufs = [h \in Handles |-> NoBuf]
    /\ released = [b \in Blocks |-> 0]
    /\ bufRet = <<>>
    /\ fault = "none"
    /\ crashed = FALSE

\* the part of the state a specification does not use
NodeIdle ==
    /\ node = [kind |-> "Nop"]
    /\ atoms = <<>>
    /\ inputs = <<>>
    /\ outputs = <<>>
    /\ ctx = <<>>
    /\ led = <<>>
    /\ pc = "idle"
    /\ scope = <<>>

CallIdle ==
    /\ call = <<>>
    /\ ret = <<>>

BufIdle ==
    /\ bufs = <<>>
    /\ released = <<>>
    /\ bufRet = <<>>

\* let b = ProcBuf::new();
BufNew(h) ==
    /\ ~crashed
    /\ \E b \in Blocks : heap[b].st = "unalloc"
    /\ heap' = [heap EXCEPT ![FreshBlock] = [st |-> "live", data |-> ZeroBlock]]
    /\ bufs' = [bufs EXCEPT ![h] = FreshBlock]
    /\ fault' = "none"
    /\ bufRet' = <<>>
    /\ UNCHANGED <<released, crashed>>

\* let b = ProcBuf::null();
BufNull(h) ==
    /\ ~crashed
    /\ bufs' = [bufs EXCEPT ![h] = ProcBuf_null]
    /\ fault' = "none"
    /\ bufRet' = <<>>
    /\ UNCHANGED <<heap, released, crashed>>

\* let g = h;   (#[derive(Clone, Copy)])
BufCopy(h, g) ==
    /\ ~crashed
    /\ h # g
    /\ bufs[h] # NoBuf
    /\ bufs' = [bufs EXCEPT ![g] = bufs[h]]
    /\ fault' = "none"
    /\ bufRet' = <<>>
    /\ UNCHANGED <<heap, released, crashed>>

\* b.read(idx)
BufRead(h, idx) ==
    /\ ~crashed
    /\ bufs[h] # NoBuf
    /\ IF idx >= MAX_BLOCK_SIZE
       THEN \* the array index is bounds checked: panic
            /\ fault' = "panic"
            /\ crashed' = TRUE
            /\ bufRet' = <<>>
       ELSE IF Backed(heap, bufs[h])
       THEN /\ bufRet' = <<ProcBuf_read(heap, bufs[h], idx)>>
            /\ fault' = "none"
            /\ UNCHANGED crashed
       ELSE \* undefined behaviour: a fatal signal, or the call returns what
            \* the memory holds
            /\ fault' = DerefKind(heap, bufs[h])
            /\ crashed' \in BOOLEAN
            /\ \E v \in StaleVals : bufRet' = <<v>>
    /\ UNCHANGED <<heap, bufs, released>>

\* b.write(idx, v)
BufWrite(h, idx, v) ==
    /\ ~crashed
    /\ bufs[h] # NoBuf
    /\ IF idx >= MAX_BLOCK_SIZE
       THEN /\ fault' = "panic"
            /\ crashed' = TRUE
            /\ UNCHANGED heap
       ELSE IF Backed(heap, bufs[h])
       THEN /\ heap' = ProcBuf_write(heap, bufs[h], idx, v)
            /\ fault' = "none"
            /\ UNCHANGED crashed
       ELSE \* undefined behaviour: the store goes to no block of the model
            /\ fault' = DerefKind(heap, bufs[h])
            /\ crashed' \in BOOLEAN
            /\ UNCHANGED heap
    /\ bufRet' = <<>>
    /\ UNCHANGED <<bufs, released>>

\* b.fill(v)
BufFill(h, v) ==
    /\ ~crashed
    /\ bufs[h] # NoBuf
    /\ IF Backed(heap, bufs[h])
       THEN /\ heap' = ProcBuf_fill(heap, bufs[h], v)
            /\ fault' = "none"
            /\ UNCHANGED crashed
       ELSE /\ fault' = DerefKind(heap, bufs[h])
            /\ crashed' \in BOOLEAN
            /\ UNCHANGED heap
    /\ bufRet' = <<>>
    /\ UNCHANGED <<bufs, released>>

\* b.write_from(slice): (*self.0)[0..slice.len()] takes the reference to the
\* block first and checks the range against it afterwards
BufWriteFrom(h, slice) ==
    /\ ~crashed
    /\ bufs[h] # NoBuf
    /\ IF ~Backed(heap, bufs[h])
       THEN \* undefined behaviour: the build stops at the dereference, or
            \* goes on to the range check and the copy
            /\ IF Len(slice) > MAX_BLOCK_SIZE
               THEN /\ fault' \in {DerefKind(heap, bufs[h]), "panic"}
                    /\ crashed' = TRUE
               ELSE /\ fault' = DerefKind(heap, bufs[h])
                    /\ crashed' \in BOOLEAN
            /\ UNCHANGED heap
       ELSE IF Len(slice) > MAX_BLOCK_SIZE
       THEN \* the range 0..slice.len() is bounds checked: panic
            /\ fault' = "panic"
            /\ crashed' = TRUE
            /\ UNCHANGED heap
       ELSE /\ heap' = ProcBuf_write_from(heap, bufs[h], slice)
            /\ fault' = "none"
            /\ UNCHANGED crashed
    /\ bufRet' = <<>>
    /\ UNCHANGED <<bufs, released>>

\* the drops of a block are counted as 0, 1, or 2 for more than once
DropCount(n) == IF n < 2 THEN n + 1 ELSE n

\* b.free()
BufFree(h) ==
    /\ ~crashed
    /\ bufs[h] # NoBuf
    /\ IF ProcBuf_free_drops(bufs[h])
       THEN /\ released' = [released EXCEPT ![bufs[h]] = DropCount(@)]
            \* the content of a released block is no longer program state
            /\ heap' = [heap EXCEPT ![bufs[h]] = [st |-> "freed", data |-> ZeroBlock]]
            /\ IF heap[bufs[h]].st = "live"
               THEN fault' = "none" /\ UNCHANGED crashed
               ELSE \* the block is dropped a second time: undefined behaviour
                    fault' = "double_free" /\ crashed' \in BOOLEAN
       ELSE /\ fault' = "none"
            /\ UNCHANGED <<heap, released, crashed>>
    /\ bufRet' = <<>>
    /\ UNCHANGED bufs

BufNext ==
    \/ \E h \in Handles : BufNew(h)
    \/ \E h \in Handles : BufNull(h)
    \/ \E h, g \in Handles : BufCopy(h, g)
    \/ \E h \in Handles, idx \in SampleIdx : BufRead(h, idx)
    \/ \E h \in Handles, idx \in SampleIdx, v \in SampleVals : BufWrite(h, idx, v)
    \/ \E h \in Handles, v \in SampleVals : BufFill(h, v)
    \/ \E h \in Handles, s \in SampleSlices : BufWriteFrom(h, s)
    \/ \E h \in Handles : BufFree(h)

SpecBufInit == BufInit /\ NodeIdle /\ CallIdle /\ LibmIdle

(***************************************************************************)
(* A monitor copying out of a ProcBuf                                      *)
(***************************************************************************)
\* len arguments of copy_to, and lengths of the destination slice
CopyLens == {0, 1, MAX_BLOCK_SIZE, MAX_BLOCK_SIZE + 1}

DstLens == {0, 1, 2, MAX_BLOCK_SIZE, MAX_BLOCK_SIZE + 1}

\* the destination slice before the call
DstBefore(dlen) == ConstSlice(dlen, FNeg(FOne))

\* &(*self.0)[0..len], len <= MAX_BLOCK_SIZE
ProcBuf_slice_to(hp, p, len) == [i \in 1 .. len |-> hp[p].data[i - 1]]

\* slice.copy_from_slice(src) panics unless the lengths are equal
copy_from_slice_fits(dlen, len) == dlen = len

\* how many samples at the start of a released block the allocator has
\* overwritten: its first words, or all of it
OverwrittenLens(dlen) == {k \in 0 .. dlen : k <= MaxFreeWords \/ k = dlen}

\* what the memory of a released block holds: at the indices SampleIdx and
\* between them, what the program stored or any word
BlockPatterns ==
    {[i \in BlockIdx |-> IF i = 0 THEN first
                         ELSE IF i = MAX_BLOCK_SIZE - 1 THEN last
                         ELSE rest] : first, rest, last \in StaleVals}

\* what copy_from_slice leaves in a dst of dlen <= MAX_BLOCK_SIZE samples
\* when it copies out of memory that is no block of the program: what the
\* memory holds, behind k words the allocator has written since (each of
\* them any word), or dst as it was (the memory is dst itself by now)
StaleSlices(dlen) ==
    {DstBefore(dlen)} \cup
    {[i \in 1 .. dlen |-> IF i <= k THEN AnyWord ELSE data[i - 1]] :
        k \in OverwrittenLens(dlen), data \in BlockPatterns}

\* (&b).copy_to(len, &mut dst), dst of dlen samples; bufRet is dst afterwards
BufCopyTo(h, len, dlen) ==
    /\ ~crashed
    /\ bufs[h] # NoBuf
    /\ IF ~Backed(heap, bufs[h])
       THEN \* undefined behaviour: the pointer is dereferenced first
            IF len > MAX_BLOCK_SIZE \/ ~copy_from_slice_fits(dlen, len)
            THEN \* the build stops at the dereference or at the check
                 /\ fault' \in {DerefKind(heap, bufs[h]), "panic"}
                 /\ crashed' = TRUE
                 /\ bufRet' = DstBefore(dlen)
            ELSE \* a fatal signal, or the copy is made and the call returns
                 /\ fault' = DerefKind(heap, bufs[h])
                 /\ \/ crashed' = TRUE /\ bufRet' = DstBefore(dlen)
                    \/ crashed' = FALSE /\ bufRet' \in StaleSlices(dlen)
       ELSE IF len > MAX_BLOCK_SIZE \/ ~copy_from_slice_fits(dlen, len)
       THEN \* the range or the length check fails: panic
            /\ fault' = "panic"
            /\ crashed' = TRUE
            /\ bufRet' = DstBefore(dlen)
       ELSE /\ bufRet' = ProcBuf_slice_to(heap, bufs[h], len)
            /\ fault' = "none"
            /\ UNCHANGED crashed
    /\ UNCHANGED <<heap, bufs, released>>

MonNext ==
    \/ \E h \in Handles : BufNew(h)
    \/ \E h \in Handles : BufNull(h)
    \/ \E h \in Handles, idx \in SampleIdx, v \in SampleVals : BufWrite(h, idx, v)
    \/ \E h \in Handles, v \in SampleVals : BufFill(h, v)
    \/ \E h \in Handles, len \in CopyLens, dlen \in DstLens : BufCopyTo(h, len, dlen)
    \/ \E h \in Handles : BufFree(h)

SpecMon == SpecBufInit /\ [][MonNext /\ UNCHANGED <<nodeVars, callVars, libm>>]_vars

SpecBuf == SpecBufInit /\ [][BufNext /\ UNCHANGED <<nodeVars, callVars, libm>>]_vars


(***************************************************************************)
(* SAtom  (src/src/dsp/satom.rs)                                           *)
(***************************************************************************)
SAtom_str(s) == [t |-> "Str", s |-> s]

SAtom_setting(s) == [t |-> "Setting", i |-> s]

SAtom_param(p) == [t |-> "Param", p |-> p]

SAtom_micro(m) == [t |-> "MicroSample", m |-> m]

SAtom_audio(s, m) == [t |-> "AudioSample", name |-> s, sample |-> <<m>>]

SAtom_audio_unloaded(s) == [t |-> "AudioSample", name |-> s, sample |-> <<>>]

\* [0.0; 8]
MicroZeros == [k \in 1 .. 8 |-> FZero]

\* a default that is Param(0.0) whatever the receiver
SAtom_default_of_param(a) == SAtom_param(FZero)

\* SAtom::default_of
SAtom_default_of(a) ==
    CASE a.t = "Str"         -> [t |-> "Str", s |-> ""]
      [] a.t = "MicroSample" -> [t |-> "MicroSample", m |-> MicroZeros]
      [] a.t = "AudioSample" -> [t |-> "AudioSample", name |-> "", sample |-> <<>>]
      [] a.t = "Setting"     -> [t |-> "Setting", i |-> 0]
      [] a.t = "Param"       -> [t |-> "Param", p |-> FZero]

\* SAtom::is_continous
SAtom_is_continous(a) == IF a.t = "Param" THEN TRUE ELSE FALSE

\* i() that rounds a Param to the nearest integer
SAtom_i_round(a) ==
    CASE a.t = "Setting" -> a.i
      [] a.t = "Param"   -> FRoundInt(a.p)
      [] OTHER           -> 0

\* SAtom::i
SAtom_i(a) ==
    CASE a.t = "Setting" -> a.i
      [] a.t = "Param"   -> FTruncInt(a.p)
      [] OTHER           -> 0

\* SAtom::f
SAtom_f(a) ==
    CASE a.t = "Setting" -> FInt(a.i)
      [] a.t = "Param"   -> a.p
      [] OTHER           -> FZero

\* SAtom values: every variant, zero and non-zero contents
SampleSettings == {-1000, -1, 0, 1, 2, 10, 1000}

SampleParams ==
    {FZero, FHalf, FNeg(FHalf), FOne, FRat(3, 2), FRat(-3, 2), FRat(-7, 4),
     FRat(1, 1000), FRat(2001, 2), FRat(-2001, 2)}

SampleMicros == {MicroZeros, [k \in 1 .. 8 |-> IF k = 3 THEN FOne ELSE FZero]}

SampleSAtoms ==
    {SAtom_str(str) : str \in {"", "a", "sin"}}
    \cup {SAtom_setting(n) : n \in SampleSettings}
    \cup {SAtom_param(x) : x \in SampleParams}
    \cup {SAtom_micro(m) : m \in SampleMicros}
    \cup {SAtom_audio(str, m) : str \in {"", "a.wav"}, m \in {<<>>, <<FHalf, FOne>>}}
    \cup {SAtom_audio_unloaded(str) : str \in {"", "a.wav"}}

\* let mut a = <an SAtom>
AtomInit ==
    /\ call \in {[fn |-> "satom", orig |-> a, a |-> a, n |-> 0] : a \in SampleSAtoms}
    /\ ret = <<>>
    /\ fault = "none"
    /\ crashed = FALSE
    /\ heap = <<>>
    /\ BufIdle
    /\ LibmIdle
    /\ NodeIdle

\* a = a.default_of()
AtomDefaultOf ==
    /\ call.n < MaxDefaults
    /\ call' = [call EXCEPT !.a = SAtom_default_of(@), !.n = @ + 1]
    /\ ret' = <<>>
    /\ UNCHANGED <<fault, crashed, heap, bufVars, nodeVars>>

\* a.i()
AtomI ==
    /\ ret' = <<"i", SAtom_i(call.a)>>
    /\ UNCHANGED <<call, fault, crashed, heap, bufVars, nodeVars>>

\* a.f()
AtomF ==
    /\ ret' = <<"f", SAtom_f(call.a)>>
    /\ UNCHANGED <<call, fault, crashed, heap, bufVars, nodeVars>>

\* a.is_continous()
AtomIsContinous ==
    /\ ret' = <<"is_continous", SAtom_is_continous(call.a)>>
    /\ UNCHANGED <<call, fault, crashed, heap, bufVars, nodeVars>>

AtomNext == AtomDefaultOf \/ AtomI \/ AtomF \/ AtomIsContinous

SpecAtom == AtomInit /\ [][AtomNext /\ UNCHANGED libm]_vars

(***************************************************************************)
(* NodeAudioContext: frame count and physical output channels              *)
(***************************************************************************)
OutChannels == 0 .. 1

\* the context of a block of n frames, no output written yet
NewCtx(n) ==
    [nframes |-> n, out |-> [ch \in OutChannels |-> [f \in BlockIdx |-> <<>>]]]

\* ctx.nframes()
Ctx_nframes(c) == c.nframes

\* ctx.output(channel, frame, v)
Ctx_output(c, ch, frame, v) == [c EXCEPT !.out[ch][frame] = <<v>>]

(***************************************************************************)
(* Out  (src/src/dsp/node_out.rs)                                          *)
(***************************************************************************)
\* Out::new
Out_new == [input |-> <<FZero, FZero>>]

\* inp::Out::ch1 / inp::Out::ch2 / at::Out::mono
inp_Out_ch1(inp) == inp[0]

inp_Out_ch2(inp) == inp[1]

at_Out_mono(at) == at[0]

\* ctx.output(0, frame, a.read(frame)); ctx.output(1, frame, b.read(frame))
Out_frame(c, frame, a, b, hp) ==
    Ctx_output(Ctx_output(c, 0, frame, ProcBuf_read(hp, a, frame)),
               1, frame, ProcBuf_read(hp, b, frame))

\* the iterations for frames lo .. hi-1 in order (evaluated by halving)
RECURSIVE Out_frames(_, _, _, _, _, _)
Out_frames(c, lo, hi, a, b, hp) ==
    Strict(c,
        IF lo >= hi THEN c
        ELSE IF hi = lo + 1 THEN Out_frame(c, lo, a, b, hp)
        ELSE LET mid == (lo + hi) \div 2
             IN  Out_frames(Out_frames(c, lo, mid, a, b, hp), mid, hi, a, b, hp))

\* the mono test with the sense inverted
Out_is_mono_inverted(at) == ~(SAtom_i(at_Out_mono(at)) > 0)

\* at::Out::mono(atoms).i() > 0
Out_is_mono(at) == SAtom_i(at_Out_mono(at)) > 0

\* ctx.nframes() - 1 in usize: below 0 stands for the wrapped value (a release
\* build) and for the overflow panic (a debug build)
Out_last_idx(c) == Ctx_nframes(c) - 1

\* the indices Out::process hands to read(): the loop's, then the last one
Out_read_idxs(c) == (0 .. (Ctx_nframes(c) - 1)) \cup {Out_last_idx(c)}

\* Out::process; the result is the context, the feedback slots and the fault
Out_process(self, c, at, inp, ld, hp) ==
    LET in1 == inp_Out_ch1(inp)
        c2  == IF Out_is_mono(at)
               THEN Out_frames(c, 0, Ctx_nframes(c), in1, in1, hp)
               ELSE Out_frames(c, 0, Ctx_nframes(c), in1, inp_Out_ch2(inp), hp)
    IN  IF Out_last_idx(c) \notin BlockIdx
        THEN \* nframes() - 1 underflows and read() indexes out of bounds
             [node |-> self, ctx |-> c2, led |-> ld, fault |-> "panic"]
        ELSE [node |-> self, ctx |-> c2,
              led |-> [ld EXCEPT ![0] = ProcBuf_read(hp, in1, Out_last_idx(c))],
              fault |-> "none"]

\* frame counts of a block
SampleFrames == (0 .. MaxFramesLow) \cup {MAX_BLOCK_SIZE}

\* samples the inputs of an Out node carry
SampleInVals == {FZero, FHalf, FNeg(FOne)}

\* indices the upstream nodes write: the first and the last of a block
SampleInIdx == {0, MAX_BLOCK_SIZE - 1}

\* values the control layer stores in the mono atom
SampleAtoms ==
    {SAtom_setting(0), SAtom_setting(1), SAtom_setting(-1),
     SAtom_param(FHalf), SAtom_param(FOne), SAtom_str("mono")}

LiveZero == [st |-> "live", data |-> ZeroBlock]

OutInit ==
    /\ heap = [b \in 1 .. 2 |-> LiveZero]
    /\ inputs = [i \in 0 .. 1 |-> i + 1]
    /\ outputs = <<>>
    /\ atoms = [i \in 0 .. 0 |-> SAtom_setting(0)]
    /\ node = [kind |-> "Out", node |-> Out_new]
    /\ ctx = NewCtx(0)
    /\ led = [i \in 0 .. 0 |-> FZero]
    /\ pc = "fill"
    /\ scope = <<>>
    /\ fault = "none"
    /\ crashed = FALSE
    /\ BufIdle
    /\ LibmIdle
    /\ CallIdle

\* between blocks the control layer replaces the mono atom
OutSetAtom(a) ==
    /\ ~crashed
    /\ pc = "fill"
    /\ atoms' = [atoms EXCEPT ![0] = a]
    /\ UNCHANGED <<heap, inputs, outputs, node, ctx, led, pc, fault, crashed, scope>>

\* before the node runs an upstream node writes a sample of input ch
OutSetInput(ch, idx, v) ==
    /\ ~crashed
    /\ pc = "fill"
    /\ heap' = ProcBuf_write(heap, inputs[ch], idx, v)
    /\ UNCHANGED <<atoms, inputs, outputs, node, ctx, led, pc, fault, crashed, scope>>

\* the node processes one block of n frames
OutProcess(n) ==
    /\ ~crashed
    /\ pc = "fill"
    /\ LET r == Out_process(node.node, NewCtx(n), atoms, inputs, led, heap)
       IN  /\ node' = [node EXCEPT !.node = r.node]
           /\ ctx' = r.ctx
           /\ led' = r.led
           /\ fault' = r.fault
           /\ crashed' = (r.fault = "panic")
    /\ pc' = "done"
    /\ UNCHANGED <<heap, atoms, inputs, outputs, scope>>

\* the host takes the block; the next block gets a new context
OutBlockEnd ==
    /\ ~crashed
    /\ pc = "done"
    /\ pc' = "fill"
    /\ ctx' = NewCtx(0)
    /\ UNCHANGED <<heap, atoms, inputs, outputs, node, led, fault, crashed, scope>>

OutNext ==
    \/ \E a \in SampleAtoms : OutSetAtom(a)
    \/ \E ch \in 0 .. 1, idx \in SampleInIdx, v \in SampleInVals : OutSetInput(ch, idx, v)
    \/ \E n \in SampleFrames : OutProcess(n)
    \/ OutBlockEnd

SpecOut == OutInit /\ [][OutNext /\ UNCHANGED <<bufs, released, bufRet, callVars, libm>>]_vars

(***************************************************************************)
(* Parameter curves  (src/src/dsp/mod.rs, define_lin .. d_pit)             *)
(***************************************************************************)
F2 == [m |-> 8388608, e |-> -22]

F10 == [m |-> 10485760, e |-> -20]

F440 == [m |-> 14417920, e |-> -15]

\* 0.01: the f32 nearest to 1 / 100
F001 == [m |-> 10737418, e |-> -30]

\* macro n_id / d_id
n_id(x) == x

d_id(x) == x

\* define_lin!{n d min, max}
lin_n(min, max, x) == FAbs(FDiv(FSub(x, min), FSub(max, min)))

lin_d(min, max, x) == FAdd(FMul(min, FSub(FOne, x)), FMul(max, x))

\* define_exp!{n d min, max}
exp_n(min, max, x) == FSqrt(FAbs(FDiv(FSub(x, min), FSub(max, min))))

exp_d(min, max, x0) ==
    LET x == FMul(x0, x0)
    IN  FAdd(FMul(min, FSub(FOne, x)), FMul(max, x))

\* define_exp4!{n d min, max}
exp4_n(min, max, x) == FSqrt(FSqrt(FAbs(FDiv(FSub(x, min), FSub(max, min)))))

exp4_d(min, max, x0) ==
    LET x == FMul(FMul(FMul(x0, x0), x0), x0)
    IN  FAdd(FMul(min, FSub(FOne, x)), FMul(max, x))

\* n_pit with the divisor of the commented-out variant
n_pit_div5(x) == FDiv(FLog2(FDiv(FMax(x, F001), F440)), FInt(5))

\* macro n_pit
n_pit(x) == FDiv(FLog2(FDiv(FMax(x, F001), F440)), F10)

\* macro d_pit
d_pit(x) ==
    LET note == FMul(x, F10)
    IN  FMul(F440, FExp2(note))

\* define_exp!{n_gain d_gain 0.0, 2.0}
n_gain(x) == exp_n(FZero, F2, x)

d_gain(x) == exp_d(FZero, F2, x)

\* define_exp!{n_att d_att 0.0, 1.0}
n_att(x) == exp_n(FZero, FOne, x)

d_att(x) == exp_d(FZero, FOne, x)

\* $n_fun!(x) / $d_fun!(x) for the macro named in node_list
NormFun(f, x) ==
    CASE f = "n_id"   -> n_id(x)
      [] f = "n_gain" -> n_gain(x)
      [] f = "n_att"  -> n_att(x)
      [] f = "n_pit"  -> n_pit(x)

DenormFun(f, x) ==
    CASE f = "d_id"   -> d_id(x)
      [] f = "d_gain" -> d_gain(x)
      [] f = "d_att"  -> d_att(x)
      [] f = "d_pit"  -> d_pit(x)

(***************************************************************************)
(* node_list                                                               *)
(***************************************************************************)
\* ($in_idx $para $n_fun $d_fun $min, $max, $def)
InArm(idx, para, nf, df, min, max, def) ==
    [idx |-> idx, name |-> para, n_fun |-> nf, d_fun |-> df,
     min |-> min, max |-> max, def |-> def]

\* {$in_at_idx $at_idx $atom $at_fun($at_init) $amin $amax}
AtArm(in_at_idx, at_idx, atom, at_init, amin, amax) ==
    [idx |-> in_at_idx, at_idx |-> at_idx, name |-> atom,
     at_fun |-> "setting", at_init |-> at_init, amin |-> amin, amax |-> amax]

\* [$out_idx $out]
OutArm(idx, out) == [idx |-> idx, name |-> out]

\* nop => Nop
NopStr == "nop"

node_list == <<
    [str |-> "amp", variant |-> "Amp", ui_type |-> "Generic", ui_cat |-> "Signal",
     inputs |-> << InArm(0, "inp",  "n_id",   "d_id",   FNeg(FOne), FOne, FZero),
                   InArm(1, "gain", "n_gain", "d_gain", FZero,      FOne, FOne),
                   InArm(2, "att",  "n_att",  "d_att",  FZero,      FOne, FOne) >>,
     atoms  |-> << AtArm(3, 0, "neg_att", 1, 0, 1) >>,
     outs   |-> << OutArm(0, "sig") >>],
    [str |-> "tseq", variant |-> "TSeq", ui_type |-> "Generic", ui_cat |-> "CV",
     inputs |-> << InArm(0, "clock", "n_id", "d_id", FZero, FOne, FZero) >>,
     atoms  |-> << AtArm(1, 0, "cmode", 1, 0, 1) >>,
     outs   |-> << OutArm(0, "trk1"), OutArm(1, "trk2"), OutArm(2, "trk3"),
                   OutArm(3, "trk4"), OutArm(4, "trk5"), OutArm(5, "trk6") >>],
    [str |-> "sin", variant |-> "Sin", ui_type |-> "Generic", ui_cat |-> "Osc",
     inputs |-> << InArm(0, "freq", "n_pit", "d_pit", FNeg(FOne), FOne, F440) >>,
     atoms  |-> << >>,
     outs   |-> << OutArm(0, "sig") >>],
    [str |-> "out", variant |-> "Out", ui_type |-> "Generic", ui_cat |-> "IOUtil",
     inputs |-> << InArm(0, "ch1", "n_id", "d_id", FNeg(FOne), FOne, FZero),
                   InArm(1, "ch2", "n_id", "d_id", FNeg(FOne), FOne, FZero) >>,
     atoms  |-> << AtArm(2, 0, "mono", 0, 0, 1) >>,
     outs   |-> << >>],
    [str |-> "test", variant |-> "Test", ui_type |-> "Generic", ui_cat |-> "IOUtil",
     inputs |-> << InArm(0, "f", "n_id", "d_id", FZero, FOne, FHalf) >>,
     atoms  |-> << AtArm(1, 0, "s", 0, 0, 10) >>,
     outs   |-> << >>]
>>

\* the kinds other than Nop, in declaration order
Variants == {node_list[i].variant : i \in 1 .. Len(node_list)}

Kinds == {"Nop"} \cup Variants

\* the node_list entry the macros expand for $variant
Entry(kind) == node_list[CHOOSE i \in 1 .. Len(node_list) : node_list[i].variant = kind]

\* Option<T>
None == <<>>

Some(x) == <<x>>

\* match key { arm[1].k => ..., arm[2].k => ..., _ => None }: the first arm
\* whose pattern equals the key
MatchArm(arms, keys, key) ==
    LET hit == {i \in 1 .. Len(arms) : keys[i] = key}
    IN  IF hit = {} THEN None
        ELSE Some(arms[CHOOSE i \in hit : \A j \in hit : i <= j])

Idxs(arms) == [i \in 1 .. Len(arms) |-> arms[i].idx]

AtIdxs(arms) == [i \in 1 .. Len(arms) |-> arms[i].at_idx]

Names(arms) == [i \in 1 .. Len(arms) |-> arms[i].name]

(***************************************************************************)
(* NodeId                                                                  *)
(***************************************************************************)
\* NodeId::Nop and NodeId::$variant(instance)
NodeId_Nop == [kind |-> "Nop", inst |-> 0]

NodeId_of(kind, i) == IF kind = "Nop" THEN NodeId_Nop ELSE [kind |-> kind, inst |-> i]

ParamId_of(nid, arm) == [name |-> arm.name, node |-> nid, idx |-> arm.idx]

\* NodeId::instance
NodeId_instance(nid) == IF nid.kind = "Nop" THEN 0 ELSE nid.inst

\* NodeId::name
NodeId_name(nid) == IF nid.kind = "Nop" THEN NopStr ELSE Entry(nid.kind).str

\* from_str whose fallback arm yields the first declared kind
NodeId_from_str_first(name) ==
    IF name = NopStr THEN NodeId_Nop
    ELSE LET hit == MatchArm(node_list, [i \in 1 .. Len(node_list) |-> node_list[i].str], name)
         IN  IF hit = None THEN NodeId_of(node_list[1].variant, 0)
             ELSE NodeId_of(hit[1].variant, 0)

\* NodeId::from_str
NodeId_from_str(name) ==
    IF name = NopStr THEN NodeId_Nop
    ELSE LET hit == MatchArm(node_list, [i \in 1 .. Len(node_list) |-> node_list[i].str], name)
         IN  IF hit = None THEN NodeId_Nop ELSE NodeId_of(hit[1].variant, 0)

\* NodeId::ui_category
NodeId_ui_category(nid) == IF nid.kind = "Nop" THEN "None" ELSE Entry(nid.kind).ui_cat

\* an atom lookup that hands out the atom-relative index as the ParamId index
NodeId_atom_param_by_idx_rel(nid, idx) ==
    IF nid.kind = "Nop" THEN None
    ELSE LET e   == Entry(nid.kind)
             hit == MatchArm(e.atoms, AtIdxs(e.atoms), idx)
         IN  IF hit = None THEN None
             ELSE Some([ParamId_of(nid, hit[1]) EXCEPT !.idx = hit[1].at_idx])

\* NodeId::atom_param_by_idx
NodeId_atom_param_by_idx(nid, idx) ==
    IF nid.kind = "Nop" THEN None
    ELSE LET e   == Entry(nid.kind)
             hit == MatchArm(e.atoms, AtIdxs(e.atoms), idx)
         IN  IF hit = None THEN None ELSE Some(ParamId_of(nid, hit[1]))

\* NodeId::inp_param_by_idx
NodeId_inp_param_by_idx(nid, idx) ==
    IF nid.kind = "Nop" THEN None
    ELSE LET e   == Entry(nid.kind)
             hit == MatchArm(e.inputs, Idxs(e.inputs), idx)
         IN  IF hit = None THEN None ELSE Some(ParamId_of(nid, hit[1]))

\* the arms of a match over the inputs followed by the atoms
ParamArms(e) ==
    [i \in 1 .. (Len(e.inputs) + Len(e.atoms)) |->
        IF i <= Len(e.inputs)
        THEN [name |-> e.inputs[i].name, idx |-> e.inputs[i].idx]
        ELSE [name |-> e.atoms[i - Len(e.inputs)].name,
              idx  |-> e.atoms[i - Len(e.inputs)].idx]]

\* NodeId::param_by_idx
NodeId_param_by_idx(nid, idx) ==
    IF nid.kind = "Nop" THEN None
    ELSE LET arms == ParamArms(Entry(nid.kind))
             hit  == MatchArm(arms, Idxs(arms), idx)
         IN  IF hit = None THEN None ELSE Some(ParamId_of(nid, hit[1]))

\* NodeId::inp_param
NodeId_inp_param(nid, name) ==
    IF nid.kind = "Nop" THEN None
    ELSE LET arms == ParamArms(Entry(nid.kind))
             hit  == MatchArm(arms, Names(arms), name)
         IN  IF hit = None THEN None ELSE Some(ParamId_of(nid, hit[1]))

\* NodeId::inp
NodeId_inp(nid, name) ==
    IF nid.kind = "Nop" THEN None
    ELSE LET e   == Entry(nid.kind)
             hit == MatchArm(e.inputs, Names(e.inputs), name)
         IN  IF hit = None THEN None ELSE Some(hit[1].idx)

\* NodeId::out
NodeId_out(nid, name) ==
    IF nid.kind = "Nop" THEN None
    ELSE LET e   == Entry(nid.kind)
             hit == MatchArm(e.outs, Names(e.outs), name)
         IN  IF hit = None THEN None ELSE Some(hit[1].idx)

(***************************************************************************)
(* ParamId                                                                 *)
(***************************************************************************)
\* ParamId::node_id / inp / name
ParamId_node_id(pid) == pid.node

ParamId_inp(pid) == pid.idx

ParamId_name(pid) == pid.name

\* is_atom that answers for the continuous arms
ParamId_is_atom_swapped(pid) ==
    IF pid.node.kind = "Nop" THEN FALSE
    ELSE LET e == Entry(pid.node.kind)
         IN  IF MatchArm(e.inputs, Idxs(e.inputs), pid.idx) # None THEN TRUE
             ELSE FALSE

\* ParamId::is_atom
ParamId_is_atom(pid) ==
    IF pid.node.kind = "Nop" THEN FALSE
    ELSE LET e == Entry(pid.node.kind)
         IN  IF MatchArm(e.inputs, Idxs(e.inputs), pid.idx) # None THEN FALSE
             ELSE IF MatchArm(e.atoms, Idxs(e.atoms), pid.idx) # None THEN TRUE
             ELSE FALSE

\* ParamId::param_min_max
ParamId_param_min_max(pid) ==
    IF pid.node.kind = "Nop" THEN None
    ELSE LET e   == Entry(pid.node.kind)
             hit == MatchArm(e.inputs, Idxs(e.inputs), pid.idx)
         IN  IF hit = None THEN None ELSE Some(<<hit[1].min, hit[1].max>>)

\* norm without the match on the index: the first parameter's curve
ParamId_norm_first(pid, v) ==
    IF pid.node.kind = "Nop" THEN FZero
    ELSE NormFun(Entry(pid.node.kind).inputs[1].n_fun, v)

\* ParamId::norm: norm_v::$variant::$para(v)
ParamId_norm(pid, v) ==
    IF pid.node.kind = "Nop" THEN FZero
    ELSE LET e   == Entry(pid.node.kind)
             hit == MatchArm(e.inputs, Idxs(e.inputs), pid.idx)
         IN  IF hit = None THEN FZero ELSE NormFun(hit[1].n_fun, v)

\* ParamId::denorm: denorm_v::$variant::$para(v)
ParamId_denorm(pid, v) ==
    IF pid.node.kind = "Nop" THEN FZero
    ELSE LET e   == Entry(pid.node.kind)
             hit == MatchArm(e.inputs, Idxs(e.inputs), pid.idx)
         IN  IF hit = None THEN FZero ELSE DenormFun(hit[1].d_fun, v)

\* ParamId::norm_def: norm_def::$variant::$para()
ParamId_norm_def(pid) ==
    IF pid.node.kind = "Nop" THEN FZero
    ELSE LET e   == Entry(pid.node.kind)
             hit == MatchArm(e.inputs, Idxs(e.inputs), pid.idx)
         IN  IF hit = None THEN FZero ELSE NormFun(hit[1].n_fun, hit[1].def)

\* mod labels: the labels of the settings of an atom
labels(variant, atom) ==
    CASE variant = "Test" /\ atom = "s" ->
            <<"Zero", "One", "Two", "Three", "Four",
              "Five", "Six", "Seven", "Eigth", "Nine", "Ten">>
      [] variant = "Out" /\ atom = "mono" -> <<"Mono", "Stereo">>
      [] variant = "Amp" /\ atom = "neg_att" -> <<"Allow", "Clip">>
      [] variant = "TSeq" /\ atom = "cmode" ->
            <<"RowTrig", "PatTrig", "PatPhase", "RowPhase">>
      [] OTHER -> <<>>

\* ParamId::setting_lbl
ParamId_setting_lbl(pid, lbl_idx) ==
    IF pid.node.kind = "Nop" THEN None
    ELSE LET e   == Entry(pid.node.kind)
             hit == MatchArm(e.atoms, Idxs(e.atoms), pid.idx)
         IN  IF hit = None THEN None
             ELSE IF lbl_idx < Len(labels(e.variant, hit[1].name))
                  THEN Some(labels(e.variant, hit[1].name)[lbl_idx + 1])
                  ELSE None

\* ParamId::setting_min_max
ParamId_setting_min_max(pid) ==
    IF pid.node.kind = "Nop" THEN None
    ELSE LET e   == Entry(pid.node.kind)
             hit == MatchArm(e.atoms, Idxs(e.atoms), pid.idx)
         IN  IF hit = None THEN None ELSE Some(<<hit[1].amin, hit[1].amax>>)

\* ParamId::as_atom_def
ParamId_as_atom_def(pid) ==
    IF pid.node.kind = "Nop" THEN SAtom_param(FZero)
    ELSE LET e  == Entry(pid.node.kind)
             in == MatchArm(e.inputs, Idxs(e.inputs), pid.idx)
             at == MatchArm(e.atoms, Idxs(e.atoms), pid.idx)
         IN  IF in # None THEN SAtom_param(ParamId_norm_def(pid))
             ELSE IF at # None THEN SAtom_setting(at[1].at_init)
             ELSE SAtom_param(FZero)

(***************************************************************************)
(* Sin  (src/src/dsp/node_sin.rs)                                          *)
(***************************************************************************)
F44100 == [m |-> 11289600, e |-> -8]

F48000 == [m |-> 12288000, e |-> -8]

\* std::f32::consts::PI
PI == [m |-> 13176795, e |-> -22]

\* const TWOPI : f32 = 2.0 * std::f32::consts::PI
TWOPI == FMul(F2, PI)

\* helpers::fast_sin: a sine approximation, one parabola per half period
fast_sin_turns(t) ==
    IF FLt(t, FHalf)
    THEN FMul(FInt(16), FMul(t, FSub(FHalf, t)))
    ELSE FNeg(FMul(FInt(16), FMul(FSub(t, FHalf), FSub(FOne, t))))

fast_sin(x) == fast_sin_turns(FFract(FDiv(x, TWOPI)))

\* Sin::new
Sin_new == [srate |-> F44100, phase |-> FZero]

\* Sin::set_sample_rate
Sin_set_sample_rate(self, srate) == [self EXCEPT !.srate = srate]

\* a reset that rebuilds the node, sample rate included
Sin_reset_new(self) == Sin_new

\* Sin::reset
Sin_reset(self) == [self EXCEPT !.phase = FZero]

\* out::Sin::sig / inp::Sin::freq
out_Sin_sig(outp) == outp[0]

inp_Sin_freq(inp) == inp[0]

\* denorm::Sin::freq(buf, frame)
denorm_Sin_freq(hp, buf, frame) == d_pit(ProcBuf_read(hp, buf, frame))

\* a phase step that overwrites the phase instead of accumulating it
Sin_step_assign(phase, freq, isr) == FFract(FMul(freq, isr))

\* self.phase += freq * isr; self.phase = self.phase.fract();
Sin_step(phase, freq, isr) == FFract(FAdd(phase, FMul(freq, isr)))

\* one iteration of `for frame in 0..ctx.nframes()`
Sin_frame_write(st, frame, o, f, last_val, isr) ==
    Strict(f,
        [node     |-> [st.node EXCEPT !.phase = Sin_step(st.node.phase, f, isr)],
         heap     |-> ProcBuf_write(st.heap, o, frame, last_val),
         last_val |-> last_val])

\* an iteration that advances the phase before it takes the sine
Sin_frame_late(st, frame, o, freq, isr) ==
    Sin_frame_write(st, frame, o, denorm_Sin_freq(st.heap, freq, frame),
                    fast_sin(FMul(Sin_step(st.node.phase,
                                           denorm_Sin_freq(st.heap, freq, frame), isr),
                                  TWOPI)), isr)

Sin_frame(st, frame, o, freq, isr) ==
    Sin_frame_write(st, frame, o, denorm_Sin_freq(st.heap, freq, frame),
                    fast_sin(FMul(st.node.phase, TWOPI)), isr)

\* the iterations for frames lo .. hi-1 in order (evaluated by halving)
RECURSIVE Sin_frames(_, _, _, _, _, _)
Sin_frames(st, lo, hi, o, freq, isr) ==
    Strict(st,
        IF lo >= hi THEN st
        ELSE IF hi = lo + 1 THEN Sin_frame(st, lo, o, freq, isr)
        ELSE LET mid == (lo + hi) \div 2
             IN  Sin_frames(Sin_frames(st, lo, mid, o, freq, isr), mid, hi, o, freq, isr))

\* Sin::process; the result is the node, the buffers and the feedback slots
Sin_process_end(st, c, ld) ==
    [node |-> st.node, heap |-> st.heap, ctx |-> c,
     led |-> [ld EXCEPT ![0] = st.last_val], fault |-> "none"]

Sin_process(self, c, inp, outp, ld, hp) ==
    Sin_process_end(Sin_frames([node |-> self, heap |-> hp, last_val |-> FZero],
                               0, Ctx_nframes(c), out_Sin_sig(outp), inp_Sin_freq(inp),
                               FDiv(FOne, self.srate)),
                    c, ld)

(***************************************************************************)
(* Node  (src/src/dsp/mod.rs)                                              *)
(***************************************************************************)
Node_Nop == [kind |-> "Nop"]

\* Node::reset
Node_reset(nd) ==
    CASE nd.kind = "Nop" -> nd
      [] nd.kind = "Sin" -> [nd EXCEPT !.node = Sin_reset(nd.node)]
      [] nd.kind = "Out" -> nd

\* Node::set_sample_rate
Node_set_sample_rate(nd, sample_rate) ==
    CASE nd.kind = "Nop" -> nd
      [] nd.kind = "Sin" -> [nd EXCEPT !.node = Sin_set_sample_rate(nd.node, sample_rate)]
      [] nd.kind = "Out" -> nd

\* Node::$variant { node } after node.process(..) gave r
Node_processed(nd, r) ==
    [node |-> [nd EXCEPT !.node = r.node], heap |-> r.heap,
     ctx |-> r.ctx, led |-> r.led, fault |-> r.fault]

\* Node::process; the result is the node, context, buffers and feedback slots
Node_process(nd, c, at, inp, outp, ld, hp) ==
    CASE nd.kind = "Nop" ->
            [node |-> nd, heap |-> hp, ctx |-> c, led |-> ld, fault |-> "none"]
      [] nd.kind = "Sin" ->
            Node_processed(nd, Sin_process(nd.node, c, inp, outp, ld, hp))
      [] nd.kind = "Out" ->
            Node_processed(nd, [heap |-> hp] @@ Out_process(nd.node, c, at, inp, ld, hp))

(***************************************************************************)
(* ni::$variant, NodeInfo, node_factory                                    *)
(***************************************************************************)
\* Vec::get(i)
VecGet(v, i) == IF i >= 0 /\ i < Len(v) THEN Some(v[i + 1]) ELSE None

\* crate::dsp::$variant::$item: the help text constant of a parameter or output
HelpConst(variant, item) == [of |-> variant, item |-> item]

HelpConsts(variant, names) == [i \in 1 .. Len(names) |-> HelpConst(variant, names[i])]

\* ni::$variant::new: the name and help tables of the kind; input_help holds
\* the help of the inputs, then that of the atoms
ni_tables(e) ==
    [inputs |-> Names(e.inputs), atoms |-> Names(e.atoms), outputs |-> Names(e.outs),
     input_help  |-> HelpConsts(e.variant, Names(e.inputs))
                     \o HelpConsts(e.variant, Names(e.atoms)),
     output_help |-> HelpConsts(e.variant, Names(e.outs))]

ni_new(kind) == ni_tables(Entry(kind))

\* in_name whose fallback indexes the atoms relative to the inputs
ni_in_name_offset(self, in_idx) ==
    IF VecGet(self.inputs, in_idx) # None THEN VecGet(self.inputs, in_idx)
    ELSE VecGet(self.atoms, in_idx - Len(self.inputs))

\* ni::$variant::in_name
ni_in_name(self, in_idx) ==
    IF VecGet(self.inputs, in_idx) # None THEN VecGet(self.inputs, in_idx)
    ELSE VecGet(self.atoms, in_idx)

\* ni::$variant::in_help
ni_in_help(self, in_idx) == VecGet(self.input_help, in_idx)

\* ni::$variant::out_help
ni_out_help(self, out_idx) == VecGet(self.output_help, out_idx)

\* ni::$variant::at_name
ni_at_name(self, in_idx) == VecGet(self.atoms, in_idx)

\* ni::$variant::out_name
ni_out_name(self, out_idx) == VecGet(self.outputs, out_idx)

\* ni::$variant::out_count / in_count / at_count
ni_out_count(self) == Len(self.outputs)

ni_in_count(self) == Len(self.inputs)

ni_at_count(self) == Len(self.atoms)

\* NodeInfo::Nop
NodeInfo_Nop == [kind |-> "Nop"]

\* from_node_id that stores instance 0, as NodeInfo::from does
NodeInfo_from_node_id_inst0(nid) ==
    IF nid.kind = "Nop" THEN NodeInfo_Nop
    ELSE [kind |-> nid.kind, id |-> NodeId_of(nid.kind, 0), ni |-> ni_new(nid.kind)]

\* NodeInfo::from_node_id
NodeInfo_from_node_id(nid) ==
    IF nid.kind = "Nop" THEN NodeInfo_Nop
    ELSE [kind |-> nid.kind, id |-> nid, ni |-> ni_new(nid.kind)]

\* NodeInfo::in_name / out_name
NodeInfo_in_name(info, idx) ==
    IF info.kind = "Nop" THEN None ELSE ni_in_name(info.ni, idx)

NodeInfo_out_name(info, idx) ==
    IF info.kind = "Nop" THEN None ELSE ni_out_name(info.ni, idx)

\* NodeInfo::in_help / out_help
NodeInfo_in_help(info, idx) ==
    IF info.kind = "Nop" THEN None ELSE ni_in_help(info.ni, idx)

NodeInfo_out_help(info, idx) ==
    IF info.kind = "Nop" THEN None ELSE ni_out_help(info.ni, idx)

\* the at_name of the ni a NodeInfo holds
NodeInfo_at_name(info, idx) ==
    IF info.kind = "Nop" THEN None ELSE ni_at_name(info.ni, idx)

\* NodeInfo::to_id
NodeInfo_to_id(info) == IF info.kind = "Nop" THEN NodeId_Nop ELSE info.id

\* NodeInfo::at_count / in_count / out_count
NodeInfo_at_count(info) == IF info.kind = "Nop" THEN 0 ELSE ni_at_count(info.ni)

NodeInfo_in_count(info) == IF info.kind = "Nop" THEN 0 ELSE ni_in_count(info.ni)

NodeInfo_out_count(info) == IF info.kind = "Nop" THEN 0 ELSE ni_out_count(info.ni)

\* Amp::new, TSeq::new, Test::new: a node in its initial state
Amp_new == [fresh |-> TRUE]

TSeq_new == [fresh |-> TRUE]

Test_new == [fresh |-> TRUE]

\* $variant::new()
Variant_new(kind) ==
    CASE kind = "Amp"  -> Amp_new
      [] kind = "TSeq" -> TSeq_new
      [] kind = "Sin"  -> Sin_new
      [] kind = "Out"  -> Out_new
      [] kind = "Test" -> Test_new

\* Node::to_id
Node_to_id(nd, instance) == NodeId_of(nd.kind, instance % 256)

\* node_factory
node_factory(node_id) ==
    IF node_id.kind \in Variants
    THEN Some([node |-> [kind |-> node_id.kind, node |-> Variant_new(node_id.kind)],
               info |-> NodeInfo_from_node_id(node_id)])
    ELSE None

(***************************************************************************)
(* A Sin node driven block by block                                        *)
(***************************************************************************)
\* normalized frequency inputs: 3520 Hz, 440 * 2^2.5 Hz and 110 Hz
SinFreqNorms == {FRat(3, 10), FRat(1, 4), FRat(-2, 10)}

SampleRates == {F44100, F48000}

\* block lengths of a Sin run: empty, one frame, a full block
SinFrames == {0, 1, MAX_BLOCK_SIZE}

FSign(x) == IF x.m < 0 THEN -1 ELSE IF x.m = 0 THEN 0 ELSE 1

\* the monitor before it has seen a sample; positive tells that every sample
\* rate the node was given so far is above 0
ScopeStart(blocks, phase, positive) ==
    [blocks |-> blocks, frames |-> 0, prev |-> 0, since |-> -1, period |-> 0,
     phase0 |-> phase, positive |-> positive]

\* the monitor takes one sample: a rising zero crossing is a sample >= 0
\* after a sample < 0
ScopeSample(sc, v) ==
    LET sg     == FSign(v)
        rising == sc.prev < 0 /\ sg >= 0
    IN  [sc EXCEPT !.frames = @ + 1,
                   !.prev   = sg,
                   !.since  = IF rising THEN 1 ELSE IF @ < 0 THEN @ ELSE @ + 1,
                   !.period = IF rising /\ sc.since > 0 THEN sc.since ELSE @]

\* the monitor takes frames lo .. hi-1 of the output in order
RECURSIVE ScopeScan(_, _, _, _)
ScopeScan(sc, data, lo, hi) ==
    Strict(sc,
        IF lo >= hi THEN sc
        ELSE IF hi = lo + 1 THEN ScopeSample(sc, data[lo])
        ELSE LET mid == (lo + hi) \div 2
             IN  ScopeScan(ScopeScan(sc, data, lo, mid), data, mid, hi))

\* the phase the monitor starts from: that of a Sin, none for a Nop
NodePhase(nd) == IF nd.kind = "Sin" THEN nd.node.phase ELSE FZero

\* the graph slot holds a Sin, or nothing (Node::Nop)
SinInit ==
    /\ \E x \in SinFreqNorms :
          /\ heap = [b \in 1 .. 2 |->
                       IF b = 1 THEN [st |-> "live", data |-> [i \in BlockIdx |-> x]]
                       ELSE LiveZero]
          /\ libm \in [powf : PowfFns({FMul(x, F10)})]
    /\ inputs = [i \in 0 .. 0 |-> 1]
    /\ outputs = [i \in 0 .. 0 |-> 2]
    /\ atoms = <<>>
    /\ node \in {[kind |-> "Sin", node |-> Sin_new], Node_Nop}
    /\ ctx = NewCtx(0)
    /\ led = [i \in 0 .. 0 |-> FZero]
    /\ pc = "fill"
    /\ scope = ScopeStart(0, Sin_new.phase, FLt(FZero, Sin_new.srate))
    /\ fault = "none"
    /\ crashed = FALSE
    /\ BufIdle
    /\ CallIdle

\* node.set_sample_rate(sr) between blocks
SinSetSampleRate(sr) ==
    /\ node' = Node_set_sample_rate(node, sr)
    /\ scope' = ScopeStart(scope.blocks, NodePhase(node'),
                            scope.positive /\ FLt(FZero, sr))
    /\ UNCHANGED <<heap, inputs, outputs, atoms, ctx, led, pc, fault, crashed>>

\* node.reset() between blocks
SinReset ==
    /\ node' = Node_reset(node)
    /\ scope' = ScopeStart(scope.blocks, NodePhase(node'), scope.positive)
    /\ UNCHANGED <<heap, inputs, outputs, atoms, ctx, led, pc, fault, crashed>>

\* node.process(..) for a block of n frames
SinProcess(n) ==
    /\ scope.blocks < MaxSinBlocks
    /\ \E r \in {Node_process(node, NewCtx(n), atoms, inputs, outputs, led, heap)} :
           /\ node' = r.node
           /\ heap' = r.heap
           /\ ctx' = r.ctx
           /\ led' = r.led
           /\ fault' = r.fault
           /\ scope' = ScopeScan([scope EXCEPT !.blocks = @ + 1],
                                 r.heap[outputs[0]].data, 0, n)
    /\ UNCHANGED <<inputs, outputs, atoms, pc, crashed>>

SinNext ==
    \/ \E sr \in SampleRates : SinSetSampleRate(sr)
    \/ SinReset
    \/ \E n \in SinFrames : SinProcess(n)

SpecSin == SinInit /\ [][SinNext /\ UNCHANGED <<bufs, released, bufRet, callVars, libm>>]_vars

\* frequency inputs over the declared normalized range: its two ends, and a
\* block that jumps between them from frame to frame
RangeFreqBlocks ==
    {[i \in BlockIdx |-> FNeg(FOne)], [i \in BlockIdx |-> FOne],
     [i \in BlockIdx |-> IF i % 2 = 0 THEN FOne ELSE FNeg(FOne)]}

\* a Sin whose frequency input is one of these blocks
RangeInit ==
    /\ \E blk \in RangeFreqBlocks :
          /\ heap = [b \in 1 .. 2 |->
                       IF b = 1 THEN [st |-> "live", data |-> blk] ELSE LiveZero]
          /\ libm \in [powf : PowfFns({FMul(blk[i], F10) : i \in BlockIdx})]
    /\ inputs = [i \in 0 .. 0 |-> 1]
    /\ outputs = [i \in 0 .. 0 |-> 2]
    /\ atoms = <<>>
    /\ node = [kind |-> "Sin", node |-> Sin_new]
    /\ ctx = NewCtx(0)
    /\ led = [i \in 0 .. 0 |-> FZero]
    /\ pc = "fill"
    /\ scope = ScopeStart(0, Sin_new.phase, FLt(FZero, Sin_new.srate))
    /\ fault = "none"
    /\ crashed = FALSE
    /\ BufIdle
    /\ CallIdle

\* a positive sample rate far below every audio rate: 2^-120 Hz
FTinyRate == [m |-> 8388608, e |-> -143]

\* arguments of set_sample_rate: an audio rate, the tiny rate, and rates that
\* are not above 0
RangeRates == {F44100, FTinyRate, FZero, FNeg(F44100)}

RangeNext ==
    \/ \E sr \in RangeRates : SinSetSampleRate(sr)
    \/ SinReset
    \/ \E n \in SinFrames : SinProcess(n)

SpecSinRange ==
    RangeInit /\ [][RangeNext /\ UNCHANGED <<bufs, released, bufRet, callVars, libm>>]_vars

(***************************************************************************)
(* Calls of ParamId::denorm and ParamId::norm                              *)
(***************************************************************************)
\* the continuous parameters of all kinds
ContParams ==
    UNION {{ParamId_of(NodeId_of(k, 0), Entry(k).inputs[i]) :
                i \in 1 .. Len(Entry(k).inputs)} : k \in Variants}

\* normalized values of the declared range of a parameter
SampleNorms(pid) ==
    LET mm == ParamId_param_min_max(pid)[1]
    IN  {FRat(k, NormDen) :
            k \in (FTruncInt(mm[1]) * NormDen) .. (FTruncInt(mm[2]) * NormDen)}
        \cup {x \in {FRat(-2, 10), FRat(3, 10)} : FLe(mm[1], x) /\ FLe(x, mm[2])}

\* frequencies handed to norm directly
SampleFreqs == {FInt(110), F440, FInt(3520)}

FreqParam == NodeId_inp_param(NodeId_of("Sin", 0), "freq")[1]

MathInit ==
    /\ call \in UNION {{[fn |-> "denorm_norm", pid |-> pid, v |-> n] :
                            n \in SampleNorms(pid)} : pid \in ContParams}
                \cup {[fn |-> "norm", pid |-> FreqParam, v |-> x] : x \in SampleFreqs}
    /\ ret = <<>>
    /\ fault = "none"
    /\ crashed = FALSE
    /\ heap = <<>>
    /\ BufIdle
    /\ libm \in [log2 : UniformFns, powf : UniformFns]
    /\ NodeIdle

\* let d = pid.denorm(n);
MathDenorm ==
    /\ call.fn = "denorm_norm"
    /\ ret = <<>>
    /\ ret' = <<ParamId_denorm(call.pid, call.v)>>
    /\ UNCHANGED <<call, fault, crashed, heap, bufVars, nodeVars>>

\* pid.norm(d), pid.norm(x)
MathNorm ==
    /\ \/ call.fn = "denorm_norm" /\ Len(ret) = 1
             /\ ret' = <<ret[1], ParamId_norm(call.pid, ret[1])>>
       \/ call.fn = "norm" /\ ret = <<>>
             /\ ret' = <<ParamId_norm(call.pid, call.v)>>
    /\ UNCHANGED <<call, fault, crashed, heap, bufVars, nodeVars>>

MathNext == MathDenorm \/ MathNorm

SpecMath == MathInit /\ [][MathNext /\ UNCHANGED libm]_vars

(***************************************************************************)
(* UICategory                                                              *)
(***************************************************************************)
\* enum UICategory
UICategories == {"None", "Osc", "Mod", "NtoM", "Signal", "CV", "IOUtil"}

\* a lister that never counts the skipped kinds down
CatLister_noskip(st, e, cat) ==
    IF e.ui_cat = cat /\ st.skip = 0
    THEN [st EXCEPT !.called = Append(@, NodeId_of(e.variant, 0))]
    ELSE st

\* one expansion of the lister: st is the skip count left and the ids fun got
CatLister(st, e, cat) ==
    IF e.ui_cat = cat
    THEN IF st.skip = 0
         THEN [st EXCEPT !.called = Append(@, NodeId_of(e.variant, 0))]
         ELSE [st EXCEPT !.skip = @ - 1]
    ELSE st

\* the expansions for the entries i .. of node_list, in order
RECURSIVE CatListerFrom(_, _, _)
CatListerFrom(st, i, cat) ==
    IF i > Len(node_list) THEN st
    ELSE CatListerFrom(CatLister(st, node_list[i], cat), i + 1, cat)

\* UICategory::get_node_ids: the NodeIds fun is invoked with, in order
UICategory_get_node_ids(self, skip) ==
    CatListerFrom([skip |-> skip, called |-> <<>>], 1, self).called

(***************************************************************************)
(* Calls into the registry: lookups, factory, names                        *)
(***************************************************************************)
\* instance numbers (u8): the low ones and the largest
Insts == (0 .. MaxInst) \cup {255}

NodeIds == {NodeId_of(k, i) : k \in Kinds, i \in Insts}

LookupIdx == 0 .. MaxIdx

\* the names of the declared kinds
DeclaredStrs == {node_list[i].str : i \in 1 .. Len(node_list)}

\* strings handed to from_str
SampleStrs == DeclaredStrs \cup {NopStr, "", "Sin", "sine", "amp "}

\* the parameter and output names of all kinds, and one that is none of them
SampleNames ==
    UNION {{Entry(k).inputs[i].name : i \in 1 .. Len(Entry(k).inputs)}
           \cup {Entry(k).atoms[i].name : i \in 1 .. Len(Entry(k).atoms)}
           \cup {Entry(k).outs[i].name : i \in 1 .. Len(Entry(k).outs)} : k \in Variants}
    \cup {"none"}

ByIdxFns == {"atom_param_by_idx", "inp_param_by_idx", "param_by_idx"}

ByNameFns == {"inp_param", "inp", "out"}

\* the calls that give an Option<ParamId>
ParamFns == ByIdxFns \cup {"inp_param"}

\* values handed to norm and denorm, and label indices handed to setting_lbl
QueryVals == {FZero, FHalf, FOne}

LblIdxs == {0, 1, 2, 4, 10, 11}

\* the libms of a program that hands these values to norm and denorm
RegLibms ==
    [log2 : Log2Fns({FDiv(FMax(v, F001), F440) : v \in QueryVals}),
     powf : PowfFns({FMul(v, F10) : v \in QueryVals})]

\* what a caller reads off a ParamId
ParamSummary(p) ==
    [node_id         |-> ParamId_node_id(p),
     inp             |-> ParamId_inp(p),
     name            |-> ParamId_name(p),
     param_min_max   |-> ParamId_param_min_max(p),
     norm_def        |-> ParamId_norm_def(p),
     norm            |-> [v \in QueryVals |-> ParamId_norm(p, v)],
     denorm          |-> [v \in QueryVals |-> ParamId_denorm(p, v)],
     setting_min_max |-> ParamId_setting_min_max(p),
     setting_lbl     |-> [i \in LblIdxs |-> ParamId_setting_lbl(p, i)],
     as_atom_def     |-> ParamId_as_atom_def(p)]

RegCall(fn, nid, idx, str) == [fn |-> fn, nid |-> nid, idx |-> idx, s |-> str]

\* what a caller reads off a NodeInfo
InfoSummary(info) ==
    [id        |-> NodeInfo_to_id(info),
     in_count  |-> NodeInfo_in_count(info),
     out_count |-> NodeInfo_out_count(info),
     at_count  |-> NodeInfo_at_count(info),
     in_names  |-> [i \in LookupIdx |-> NodeInfo_in_name(info, i)],
     out_names |-> [i \in LookupIdx |-> NodeInfo_out_name(info, i)],
     at_names  |-> [i \in LookupIdx |-> NodeInfo_at_name(info, i)],
     in_help   |-> [i \in LookupIdx |-> NodeInfo_in_help(info, i)],
     out_help  |-> [i \in LookupIdx |-> NodeInfo_out_help(info, i)]]

\* every parameter lookup of a NodeId
AllLookups(nid) ==
    [by_idx  |-> [i \in LookupIdx |->
                    <<NodeId_atom_param_by_idx(nid, i), NodeId_inp_param_by_idx(nid, i),
                      NodeId_param_by_idx(nid, i)>>],
     by_name |-> [n \in SampleNames |->
                    <<NodeId_inp_param(nid, n), NodeId_inp(nid, n), NodeId_out(nid, n)>>]]

RegInit ==
    /\ call \in {RegCall(fn, nid, i, "") : fn \in ByIdxFns, nid \in NodeIds, i \in LookupIdx}
                \cup {RegCall(fn, nid, 0, "") : fn \in {"node_factory", "name"}, nid \in NodeIds}
                \cup {RegCall(fn, nid, 0, n) : fn \in ByNameFns, nid \in NodeIds, n \in SampleNames}
                \cup {RegCall("from_str", NodeId_Nop, 0, str) : str \in SampleStrs}
                \cup {RegCall("get_node_ids", NodeId_Nop, n, cat) :
                            n \in 0 .. MaxSkip, cat \in UICategories}
    /\ ret = <<>>
    /\ fault = "none"
    /\ crashed = FALSE
    /\ heap = <<>>
    /\ BufIdle
    /\ libm \in RegLibms
    /\ NodeIdle

\* let p = nid.atom_param_by_idx(i) / inp_param_by_idx(i) / param_by_idx(i)
RegParamByIdx ==
    /\ call.fn \in ByIdxFns
    /\ ret = <<>>
    /\ ret' = << CASE call.fn = "atom_param_by_idx" -> NodeId_atom_param_by_idx(call.nid, call.idx)
                   [] call.fn = "inp_param_by_idx"  -> NodeId_inp_param_by_idx(call.nid, call.idx)
                   [] call.fn = "param_by_idx"      -> NodeId_param_by_idx(call.nid, call.idx) >>
    /\ UNCHANGED <<call, fault, crashed, heap, bufVars, nodeVars>>

\* let r = nid.inp_param(name) / inp(name) / out(name)
RegByName ==
    /\ call.fn \in ByNameFns
    /\ ret = <<>>
    /\ ret' = << CASE call.fn = "inp_param" -> NodeId_inp_param(call.nid, call.s)
                   [] call.fn = "inp"       -> NodeId_inp(call.nid, call.s)
                   [] call.fn = "out"       -> NodeId_out(call.nid, call.s) >>
    /\ UNCHANGED <<call, fault, crashed, heap, bufVars, nodeVars>>

\* every query on the ParamId a lookup returned
RegParamQuery ==
    /\ call.fn \in ParamFns
    /\ Len(ret) = 2
    /\ ret' = <<ret[1], ret[2], ParamSummary(ret[1][1])>>
    /\ UNCHANGED <<call, fault, crashed, heap, bufVars, nodeVars>>

\* p.unwrap().is_atom()
RegIsAtom ==
    /\ call.fn \in ParamFns
    /\ Len(ret) = 1
    /\ ret[1] # None
    /\ ret' = <<ret[1], ParamId_is_atom(ret[1][1])>>
    /\ UNCHANGED <<call, fault, crashed, heap, bufVars, nodeVars>>

\* let r = node_factory(nid)
RegFactory ==
    /\ call.fn = "node_factory"
    /\ ret = <<>>
    /\ ret' = <<node_factory(call.nid)>>
    /\ UNCHANGED <<call, fault, crashed, heap, bufVars, nodeVars>>

\* the counts, names and id of the NodeInfo the factory returned
RegInfo ==
    /\ call.fn = "node_factory"
    /\ Len(ret) = 1
    /\ ret[1] # None
    /\ ret' = <<ret[1], InfoSummary(ret[1][1].info)>>
    /\ UNCHANGED <<call, fault, crashed, heap, bufVars, nodeVars>>

\* let s = nid.name()
RegName ==
    /\ call.fn = "name"
    /\ ret = <<>>
    /\ ret' = <<NodeId_name(call.nid)>>
    /\ UNCHANGED <<call, fault, crashed, heap, bufVars, nodeVars>>

\* let id = NodeId::from_str(s)
RegFromStr ==
    /\ \/ call.fn = "from_str" /\ ret = <<>> /\ ret' = <<call.s, NodeId_from_str(call.s)>>
       \/ call.fn = "name" /\ Len(ret) = 1 /\ ret' = <<ret[1], NodeId_from_str(ret[1])>>
    /\ UNCHANGED <<call, fault, crashed, heap, bufVars, nodeVars>>

\* id.instance(), the counts of its NodeInfo, and every lookup on it
RegLookups ==
    /\ call.fn \in {"from_str", "name"}
    /\ Len(ret) = 2
    /\ ret' = <<ret[1], ret[2],
                [inst    |-> NodeId_instance(ret[2]),
                 info    |-> InfoSummary(NodeInfo_from_node_id(ret[2])),
                 lookups |-> AllLookups(ret[2])]>>
    /\ UNCHANGED <<call, fault, crashed, heap, bufVars, nodeVars>>

\* cat.get_node_ids(skip, |nid| called.push(nid))
RegGetNodeIds ==
    /\ call.fn = "get_node_ids"
    /\ ret = <<>>
    /\ ret' = <<UICategory_get_node_ids(call.s, call.idx)>>
    /\ UNCHANGED <<call, fault, crashed, heap, bufVars, nodeVars>>

RegNext ==
    \/ RegGetNodeIds
    \/ RegParamByIdx
    \/ RegByName
    \/ RegIsAtom
    \/ RegParamQuery
    \/ RegFactory
    \/ RegInfo
    \/ RegName
    \/ RegFromStr
    \/ RegLookups

SpecReg == RegInit /\ [][RegNext /\ UNCHANGED libm]_vars

(***************************************************************************)
(* ProcBuf properties                                                      *)
(***************************************************************************)

\* C1: free() releases the backing block at most once: no sequence of free()
\* calls on a handle created by new() or on its copies drops the same block
\* a second time.
C1_FreeReleasesAtMostOnce == \A b \in Blocks : released[b] <= 1

\* C2: read, write, fill and write_from on a handle obtained from null()
\* never dereference a pointer that has no backing block.
C2_NullNeverDereferenced == fault # "null_deref"

\* a step that changed at most the content of blocks, as fill and write do
StoreOnly == bufs' = bufs /\ released' = released /\ bufRet' = <<>> /\ fault' = "none"

\* C3: a buffer created by new() reads 0.0 everywhere; after fill(v) every
\* index reads v; after write(i, v) index i reads v and every other index
\* reads what it read before.
C3_NewFillWriteRead ==
    [][ /\ \A h \in Handles :
             ((\E b \in Blocks : heap[b].st = "unalloc" /\ heap'[b].st = "live")
                /\ BufNew(h)) =>
                 \A i \in BlockIdx : ProcBuf_read(heap', bufs'[h], i) = FZero
        /\ \A h \in Handles, v \in SampleVals :
             (Backed(heap, bufs[h]) /\ StoreOnly /\ BufFill(h, v)) =>
                 \A i \in BlockIdx : ProcBuf_read(heap', bufs[h], i) = v
        /\ \A h \in Handles, idx \in SampleIdx \cap BlockIdx, v \in SampleVals :
             (Backed(heap, bufs[h]) /\ StoreOnly /\ BufWrite(h, idx, v)) =>
                 /\ ProcBuf_read(heap', bufs[h], idx) = v
                 /\ \A j \in BlockIdx \ {idx} :
                      ProcBuf_read(heap', bufs[h], j)
                          = ProcBuf_read(heap, bufs[h], j)
      ]_vars

\* a live buffer that was filled with 0.5 and then written 0.0 at its first
\* index, which was read back
C3_Witness ==
    \E h \in Handles :
        /\ Backed(heap, bufs[h])
        /\ ProcBuf_read(heap, bufs[h], 0) = FZero
        /\ ProcBuf_read(heap, bufs[h], 1) = FHalf
        /\ ProcBuf_read(heap, bufs[h], MAX_BLOCK_SIZE - 1) = FHalf
        /\ bufRet = <<FZero>>


(***************************************************************************)
(* Out properties                                                          *)
(***************************************************************************)

\* C4: Out::process routes by the mono setting: in mono both output channels
\* get ch1[frame] for every frame below nframes; in stereo channel 0 gets
\* ch1[frame] and channel 1 gets ch2[frame], so the channels differ exactly
\* where ch1 and ch2 differ; no frame >= nframes is output and no buffer is
\* written.
C4_OutRoutesByMono ==
    [][ (pc = "fill" /\ pc' = "done") =>
            LET n    == ctx'.nframes
                mono == SAtom_i(atoms[0]) > 0
                ch1  == heap[inputs[0]].data
                ch2  == heap[inputs[1]].data
            IN  /\ \A f \in BlockIdx :
                     IF f < n
                     THEN /\ ctx'.out[0][f] = <<ch1[f]>>
                          /\ ctx'.out[1][f] = <<IF mono THEN ch1[f] ELSE ch2[f]>>
                     ELSE /\ ctx'.out[0][f] = <<>>
                          /\ ctx'.out[1][f] = <<>>
                /\ ~mono =>
                     \A f \in 0 .. (n - 1) :
                        (ctx'.out[0][f] # ctx'.out[1][f]) <=> (ch1[f] # ch2[f])
                /\ heap' = heap
                /\ outputs' = outputs
      ]_vars

\* a full block was processed in mono while ch1 and ch2 differ
C4_Witness ==
    /\ node.kind = "Out"
    /\ pc = "done"
    /\ ctx.nframes = MAX_BLOCK_SIZE
    /\ atoms[0] = SAtom_setting(1)
    /\ heap[inputs[0]].data[0] = FHalf
    /\ heap[inputs[1]].data[0] = FNeg(FOne)
    /\ ctx.out[0][0] = <<FHalf>>
    /\ ctx.out[1][0] = <<FHalf>>
    /\ ctx.out[1][MAX_BLOCK_SIZE - 1] = <<FZero>>


(***************************************************************************)
(* Parameter curve properties                                              *)
(***************************************************************************)
Tolerance == FRat(1, 10000)

\* C5: for every continuous parameter of every kind and every sampled
\* normalized value n of its range, norm(denorm(n)) is n within 1e-4; for the
\* pitch curve denorm(-0.2), denorm(0.0), denorm(0.3) round to 110, 440, 3520
\* and norm of these gives -0.2, 0.0, 0.3.
C5_NormDenormRoundTrip ==
    /\ (call.fn = "denorm_norm" /\ Len(ret) = 2) =>
          FLe(FAbs(FSub(ret[2], call.v)), Tolerance)
    /\ (call.fn = "denorm_norm" /\ call.pid = FreqParam /\ Len(ret) >= 1) =>
          /\ call.v = FRat(-2, 10) => FRoundInt(ret[1]) = 110
          /\ call.v = FZero        => FRoundInt(ret[1]) = 440
          /\ call.v = FRat(3, 10)  => FRoundInt(ret[1]) = 3520
    /\ (call.fn = "norm" /\ Len(ret) = 1) =>
          /\ call.v = FInt(110)  => FRoundInt(FMul(ret[1], FInt(100))) = -20
          /\ call.v = F440       => FRoundInt(FMul(ret[1], FInt(100))) = 0
          /\ call.v = FInt(3520) => FRoundInt(FMul(ret[1], FInt(100))) = 30

\* the pitch of -0.2 was denormalized to 110 Hz and normalized again
C5_Witness ==
    /\ call.fn = "denorm_norm"
    /\ call.pid = FreqParam
    /\ call.v = FRat(-2, 10)
    /\ Len(ret) = 2
    /\ FRoundInt(ret[1]) = 110
    /\ FRoundInt(FMul(ret[2], FInt(100))) = -20

\* the constant frequency and sample rate a Sin run is driven at
SinFreq == d_pit(heap[inputs[0]].data[0])
SinRate == node.node.srate

\* distance of two phases on the circle [0, 1)
PhaseDist(a, b) ==
    LET d == FAbs(FSub(a, b))
    IN  IF FLt(FSub(FOne, d), d) THEN FSub(FOne, d) ELSE d

PhaseTolerance == FRat(1, 1000)

\* the phase after scope.frames frames of f/sr each, computed in one step
SinPhaseRef ==
    FFract(FAdd(scope.phase0, FDiv(FMul(FInt(scope.frames), SinFreq), SinRate)))

\* C6: a Sin node driven at a constant frequency f and sample rate sr, over
\* any number of blocks however the frames are split, has advanced its phase
\* by f/sr per frame, and the distance between two rising zero crossings of
\* its output is sr/f frames within one sample
C6_SinPeriod ==
    (node.kind = "Sin") =>
        /\ FLe(PhaseDist(node.node.phase, SinPhaseRef), PhaseTolerance)
        /\ scope.period # 0 =>
              FLe(FAbs(FSub(FInt(scope.period), FDiv(SinRate, SinFreq))), FOne)

\* a run of more than one block, split unevenly, in which a period was measured
C6_Witness ==
    /\ node.kind = "Sin"
    /\ scope.blocks >= 2
    /\ scope.frames > MAX_BLOCK_SIZE
    /\ scope.frames % MAX_BLOCK_SIZE # 0
    /\ scope.period # 0

\* the absolute indices node_list declares for the atoms of a kind
DeclaredAtomIdx(kind) ==
    IF kind = "Nop" THEN {}
    ELSE {Entry(kind).atoms[i].idx : i \in 1 .. Len(Entry(kind).atoms)}

\* C7: a ParamId from atom_param_by_idx is an atom, one from inp_param_by_idx
\* is not, one from param_by_idx(i) is an atom exactly when i is a declared
\* atom index of the kind; the answer is the same for instance 0 of the kind
C7_IsAtomAgreesWithFamily ==
    (call # <<>> /\ call.fn \in ByIdxFns /\ Len(ret) = 2) =>
        /\ call.fn = "atom_param_by_idx" => ret[2] = TRUE
        /\ call.fn = "inp_param_by_idx" => ret[2] = FALSE
        /\ call.fn = "param_by_idx" =>
              ret[2] = (call.idx \in DeclaredAtomIdx(call.nid.kind))
        /\ ret[2] = ParamId_is_atom([ret[1][1] EXCEPT !.node = NodeId_of(call.nid.kind, 0)])

\* param_by_idx found an atom of an instance other than 0
C7_Witness ==
    /\ call # <<>>
    /\ call.fn = "param_by_idx"
    /\ Len(ret) = 2
    /\ ret[2] = TRUE
    /\ call.nid.inst > 0

\* C8: node_factory returns None for Nop and for every other NodeId a node
\* of the same kind in its initial state with a NodeInfo of the same kind
\* whose to_id() is the NodeId asked for; it does not fail
C8_FactoryByKind ==
    (call # <<>> /\ call.fn = "node_factory" /\ Len(ret) >= 1) =>
        /\ fault = "none" /\ ~crashed
        /\ (call.nid.kind = "Nop") <=> (ret[1] = None)
        /\ ret[1] # None =>
              /\ ret[1][1].node.kind = call.nid.kind
              /\ ret[1][1].info.kind = call.nid.kind
              /\ call.nid.kind = "Sin" =>
                    /\ ret[1][1].node.node.phase = FZero
                    /\ ret[1][1].node.node.srate = F44100
              /\ call.nid.kind = "Out" => ret[1][1].node.node.input = <<FZero, FZero>>
              /\ call.nid.kind \in {"Amp", "TSeq", "Test"} => ret[1][1].node.node.fresh
              /\ Len(ret) = 2 => ret[2].id = call.nid

\* the factory built a node of an instance other than 0 and its info was read
C8_Witness ==
    /\ call # <<>>
    /\ call.fn = "node_factory"
    /\ Len(ret) = 2
    /\ call.nid.inst = 255
    /\ ret[2].id.inst = 255

\* the names a lookup returns over the looked-up indices
NamesOf(names) == {names[i][1] : i \in {j \in DOMAIN names : names[j] # None}}

\* a lookup returns a name exactly below the count, and count distinct names
CountMatches(count, names) ==
    /\ count = Cardinality(NamesOf(names))
    /\ \A i \in DOMAIN names : (names[i] # None) <=> (i < count)

\* C9: for the NodeInfo of a factoried node, in_count, out_count and
\* at_count are the numbers of distinct names in_name, out_name and at_name
\* return, and each returns a name exactly for the indices below its count
C9_CountsMatchNames ==
    (call # <<>> /\ call.fn = "node_factory" /\ Len(ret) = 2) =>
        /\ CountMatches(ret[2].in_count, ret[2].in_names)
        /\ CountMatches(ret[2].out_count, ret[2].out_names)
        /\ CountMatches(ret[2].at_count, ret[2].at_names)

\* the info of a kind with inputs, an atom and several outputs was read
C9_Witness ==
    /\ call # <<>>
    /\ call.fn = "node_factory"
    /\ Len(ret) = 2
    /\ ret[2].in_count > 0
    /\ ret[2].at_count > 0
    /\ ret[2].out_count > 1

\* C10: from_str gives Nop for every string that names no declared kind and
\* instance 0 of the kind for a declared name, so from_str(id.name()) has the
\* kind of id; Nop has instance 0, counts 0 and no parameter under any lookup
C10_FromStrAndNop ==
    (call # <<>> /\ call.fn \in {"from_str", "name"} /\ Len(ret) >= 2) =>
        /\ ret[1] \notin DeclaredStrs => ret[2] = NodeId_Nop
        /\ ret[1] \in DeclaredStrs =>
              /\ ret[2].kind \in Variants
              /\ Entry(ret[2].kind).str = ret[1]
              /\ ret[2].inst = 0
        /\ call.fn = "name" => ret[2].kind = call.nid.kind
        /\ (Len(ret) = 3 /\ ret[2].kind = "Nop") =>
              /\ ret[3].inst = 0
              /\ ret[3].info.in_count = 0
              /\ ret[3].info.out_count = 0
              /\ ret[3].info.at_count = 0
              /\ \A i \in LookupIdx : ret[3].lookups.by_idx[i] = <<None, None, None>>
              /\ \A n \in SampleNames : ret[3].lookups.by_name[n] = <<None, None, None>>

\* a string that names no kind was resolved and the result looked up
C10_Witness ==
    /\ call # <<>>
    /\ call.fn = "from_str"
    /\ Len(ret) = 3
    /\ ret[1] \notin DeclaredStrs \cup {NopStr}
    /\ ret[2] = NodeId_Nop

\* the kinds of a category as NodeIds of instance 0, in declaration order
CatKinds(cat) ==
    LET pick == SelectSeq(node_list, LAMBDA e : e.ui_cat = cat)
    IN  [i \in 1 .. Len(pick) |-> NodeId_of(pick[i].variant, 0)]

\* C11 as stated: get_node_ids(skip = N, fun) invokes fun with the N-th kind
\* of the category and with no other kind, and not at all when the category
\* has N or fewer kinds
C11_OnlyNthKind ==
    (call # <<>> /\ call.fn = "get_node_ids" /\ Len(ret) = 1) =>
        ret[1] = IF call.idx < Len(CatKinds(call.s))
                 THEN <<CatKinds(call.s)[call.idx + 1]>>
                 ELSE <<>>

\* C11 amended: get_node_ids(skip = N, fun) invokes fun, in declaration
\* order and with instance 0, with the N-th kind of the category and every
\* later kind of it, and not at all when the category has N or fewer kinds
C11_FromNthKind ==
    (call # <<>> /\ call.fn = "get_node_ids" /\ Len(ret) = 1) =>
        ret[1] = SubSeq(CatKinds(call.s), call.idx + 1, Len(CatKinds(call.s)))

\* one kind of a category of two was skipped and fun got the other
C11_Witness ==
    /\ call # <<>>
    /\ call.fn = "get_node_ids"
    /\ call.idx = 1
    /\ Len(ret) = 1
    /\ ret[1] = <<NodeId_of("Test", 0)>>

\* C12: copy_to(len, destination) on a backed ProcBuf, for every len <= 128
\* and every destination of at least len samples, does not fail, leaves the
\* samples [0, len) of the buffer in the destination and leaves the buffer
\* and its handles unchanged
C12_CopyToSnapshots ==
    [][ \A h \in Handles, len \in CopyLens, dlen \in DstLens :
          (Backed(heap, bufs[h]) /\ len <= MAX_BLOCK_SIZE /\ dlen >= len
             /\ BufCopyTo(h, len, dlen)) =>
              /\ fault' = "none"
              /\ ~crashed'
              /\ heap' = heap /\ bufs' = bufs
              /\ Len(bufRet') = dlen
              /\ \A i \in 0 .. (len - 1) :
                    bufRet'[i + 1] = ProcBuf_read(heap, bufs[h], i)
      ]_vars

(***************************************************************************)
(* Addressing properties                                                   *)
(***************************************************************************)
\* the indices and names node_list declares for a kind, per lookup
DeclaredKeys(kind, fn) ==
    IF kind = "Nop" THEN {}
    ELSE LET e == Entry(kind)
             ins  == 1 .. Len(e.inputs)
             ats  == 1 .. Len(e.atoms)
             outs == 1 .. Len(e.outs)
         IN  CASE fn = "param_by_idx" ->
                    {e.inputs[i].idx : i \in ins} \cup {e.atoms[i].idx : i \in ats}
               [] fn = "inp_param_by_idx" -> {e.inputs[i].idx : i \in ins}
               [] fn = "atom_param_by_idx" -> {e.atoms[i].at_idx : i \in ats}
               [] fn = "inp_param" ->
                    {e.inputs[i].name : i \in ins} \cup {e.atoms[i].name : i \in ats}
               [] fn = "inp" -> {e.inputs[i].name : i \in ins}
               [] fn = "out" -> {e.outs[i].name : i \in outs}

\* the key a lookup call was made with
CallKey(c) == IF c.fn \in ByIdxFns THEN c.idx ELSE c.s

\* in_count of the NodeInfo of a NodeId
InCountOf(nid) == NodeInfo_in_count(NodeInfo_from_node_id(nid))

\* C13: a ParamId returned by a lookup of NodeId k has node_id() = k, and
\* k.param_by_idx(p.inp()) gives back that ParamId, name included;
\* atom_param_by_idx(j) is param_by_idx(in_count + j)
C13_ParamIdBelongsToNode ==
    /\ (call.fn \in ParamFns /\ Len(ret) >= 1 /\ ret[1] # None) =>
          /\ ParamId_node_id(ret[1][1]) = call.nid
          /\ NodeId_param_by_idx(call.nid, ParamId_inp(ret[1][1])) = Some(ret[1][1])
    /\ (call.fn = "atom_param_by_idx" /\ Len(ret) >= 1) =>
          ret[1] = NodeId_param_by_idx(call.nid, InCountOf(call.nid) + call.idx)

\* the atom of Amp(1) looked up by its atom index
C13_Witness ==
    /\ call.fn = "atom_param_by_idx"
    /\ call.nid = NodeId_of("Amp", 1)
    /\ call.idx = 0
    /\ Len(ret) >= 1
    /\ ret[1] = Some([name |-> "neg_att", node |-> NodeId_of("Amp", 1), idx |-> 3])

\* C14: a lookup by an index or a name that is not declared for the kind
\* returns None without failing; on a ParamId whose index is not a continuous
\* parameter param_min_max is None and norm, denorm and norm_def are 0.0; on
\* one whose index is not an atom setting_min_max and setting_lbl are None
C14_InvalidAddressingIsAbsent ==
    /\ fault = "none" /\ ~crashed
    /\ (call.fn \in (ByIdxFns \cup ByNameFns) /\ Len(ret) >= 1
           /\ CallKey(call) \notin DeclaredKeys(call.nid.kind, call.fn)) =>
          ret[1] = None
    /\ (call.fn \in ParamFns /\ Len(ret) = 3
           /\ ret[1][1].idx \notin DeclaredKeys(call.nid.kind, "inp_param_by_idx")) =>
          /\ ret[3].param_min_max = None
          /\ ret[3].norm_def = FZero
          /\ \A v \in QueryVals : ret[3].norm[v] = FZero /\ ret[3].denorm[v] = FZero
    /\ (call.fn \in ParamFns /\ Len(ret) = 3
           /\ ret[1][1].idx \notin DeclaredAtomIdx(call.nid.kind)) =>
          /\ ret[3].setting_min_max = None
          /\ \A i \in LblIdxs : ret[3].setting_lbl[i] = None

\* an undeclared index gave None
C14_WitnessAbsent ==
    /\ call.fn = "inp_param_by_idx"
    /\ call.nid = NodeId_of("Amp", 0)
    /\ call.idx = 3
    /\ ret = <<None>>

\* the queries on an atom ParamId, and those on a continuous one
C14_WitnessAtom ==
    /\ call.fn = "param_by_idx"
    /\ call.nid = NodeId_of("Amp", 0)
    /\ call.idx = 3
    /\ Len(ret) = 3
    /\ ret[3].setting_lbl[1] = Some("Clip")
    /\ ret[3].norm[FHalf] = FZero

(***************************************************************************)
(* SAtom properties                                                        *)
(***************************************************************************)
\* the zero/empty value of a variant
ZeroOf(t) ==
    CASE t = "Str"         -> SAtom_str("")
      [] t = "MicroSample" -> SAtom_micro(<<FZero, FZero, FZero, FZero, FZero, FZero, FZero, FZero>>)
      [] t = "AudioSample" -> SAtom_audio_unloaded("")
      [] t = "Setting"     -> SAtom_setting(0)
      [] t = "Param"       -> SAtom_param(FZero)

\* C15: default_of gives the zero/empty value of the variant of its receiver,
\* never another variant, and applying it again changes nothing
C15_DefaultOfSameVariant ==
    (call.fn = "satom" /\ call.n >= 1) =>
        /\ call.a.t = call.orig.t
        /\ call.a = ZeroOf(call.orig.t)
        /\ SAtom_default_of(call.a) = call.a

\* a loaded AudioSample after default_of, twice
C15_Witness ==
    /\ call.fn = "satom"
    /\ call.n = 2
    /\ call.orig = SAtom_audio("a.wav", <<FHalf, FOne>>)
    /\ call.a.sample = <<>>

\* n is p with its fraction dropped: between 0 and p, less than 1 from p
TruncOf(n, p) ==
    /\ FLt(FAbs(FSub(p, FInt(n))), FOne)
    /\ FLe(FAbs(FInt(n)), FAbs(p))
    /\ n # 0 => (n > 0) = FLt(FZero, p)

\* C16: i() and f() of Setting(n) are n and n as a float, of Param(p) are p
\* truncated and p, of every other variant 0 and 0.0; is_continous() is true
\* exactly for a Param
C16_NumericProjection ==
    (call.fn = "satom" /\ ret # <<>>) =>
        /\ ret[1] = "i" =>
              CASE call.a.t = "Setting" -> ret[2] = call.a.i
                [] call.a.t = "Param"   -> TruncOf(ret[2], call.a.p)
                [] OTHER                -> ret[2] = 0
        /\ ret[1] = "f" =>
              CASE call.a.t = "Setting" ->
                        FTruncInt(ret[2]) = call.a.i /\ FFract(ret[2]) = FZero
                [] call.a.t = "Param"   -> ret[2] = call.a.p
                [] OTHER                -> ret[2] = FZero
        /\ ret[1] = "is_continous" => (ret[2] = (call.a.t = "Param"))

\* i() of Param(-1.75) is -1
C16_Witness ==
    /\ call.fn = "satom"
    /\ call.n = 0
    /\ call.a = SAtom_param(FRat(-7, 4))
    /\ ret = <<"i", -1>>

(***************************************************************************)
(* Node lifecycle properties                                               *)
(***************************************************************************)
\* C17: a sample-rate change re-enters Reset: after set_sample_rate(rate),
\* following any number of process calls, the phase of a Sin node is its
\* initial value, as it is after reset()
C17_SampleRateChangeResets ==
    [][ (node.kind = "Sin" /\ \E sr \in SampleRates : SinSetSampleRate(sr)) =>
            node'.node.phase = Sin_new.phase
      ]_vars

\* C18: reset() puts the phase of a Sin back to that of a fresh node and
\* changes nothing else: the sample rate, the atoms, the input and output
\* buffers and the feedback slots stay; on Node::Nop reset and
\* set_sample_rate change nothing
C18_ResetOnlyRestoresPhase ==
    [][ /\ SinReset =>
              /\ node.kind = "Sin" =>
                    /\ node'.node.phase = Sin_new.phase
                    /\ node'.node.srate = node.node.srate
                    /\ node'.kind = "Sin"
              /\ node.kind = "Nop" => node' = node
              /\ UNCHANGED <<atoms, inputs, outputs, heap, led>>
        /\ (node.kind = "Nop" /\ \E sr \in SampleRates : SinSetSampleRate(sr)) =>
              /\ node' = node
              /\ UNCHANGED <<atoms, inputs, outputs, heap, led>>
      ]_vars

\* a Sin at 48000 Hz that produced samples and was then reset
C18_Witness ==
    /\ node.kind = "Sin"
    /\ node.node.srate = F48000
    /\ node.node.phase = FZero
    /\ scope.blocks >= 2
    /\ scope.frames = 0
    /\ led[0] # FZero

(***************************************************************************)
(* Block processing properties                                             *)
(***************************************************************************)
\* C19: a process call with nframes in 0 ..= 128 computes and accesses only
\* buffer indices in [0, nframes), nframes = 0 included, and so runs into no
\* out-of-range access
C19_AccessWithinFrames ==
    (node.kind = "Out" /\ pc = "done") =>
        /\ Out_read_idxs(ctx) \subseteq 0 .. (Ctx_nframes(ctx) - 1)
        /\ fault = "none"

\* after a block of a Sin the feedback slot is the last sample of the block
SinFeedbackIsLastSample ==
    (node.kind = "Sin" /\ Ctx_nframes(ctx) >= 1) =>
        led[0] = ProcBuf_read(heap, outputs[0], Ctx_nframes(ctx) - 1)

\* C20: every process call writes feedback slot 0, after the frames of the
\* block, with the value of the last frame: for Out the ch1 sample at frame
\* nframes - 1
C20_FeedbackIsLastFrame ==
    [][ (node.kind = "Out" /\ pc = "fill" /\ pc' = "done") =>
            /\ ~crashed'
            /\ Ctx_nframes(ctx') >= 1 =>
                  led'[0] = ProcBuf_read(heap, inputs[0], Ctx_nframes(ctx') - 1)
      ]_vars

\* the phase after one frame at the frequency input of frame f
PhaseAfter(phase, f) ==
    Sin_step(phase, d_pit(heap[inputs[0]].data[f]), FDiv(FOne, node.node.srate))

\* the phase of a Sin lies in [0, 1)
PhaseInRange ==
    node.kind = "Sin" =>
        FLe(FZero, node.node.phase) /\ FLt(node.node.phase, FOne)

\* the sample rate of a Sin is above 0
RatePositive == node.kind = "Sin" => FLt(FZero, node.node.srate)

\* the phase step freq * (1 / srate) of the frame with frequency input x
PhaseStep(x) == FMul(d_pit(x), FDiv(FOne, node.node.srate))

\* the values of the frequency input in the first n frames
FrameFreqs(n) == {heap[inputs[0]].data[i] : i \in 0 .. n - 1}

\* the phase step of each of the first n frames of the frequency input is
\* finite at the sample rate of the Sin
StepsFinite(n) ==
    node.kind = "Sin" => \A x \in FrameFreqs(n) : ~IsInf(PhaseStep(x))

\* set_sample_rate and reset leave a phase of [0, 1) in [0, 1), and so does
\* a process call at a sample rate above 0 at which the phase step of each
\* of its frames is finite
PhaseKept ==
    /\ scope'.blocks = scope.blocks => (PhaseInRange => PhaseInRange')
    /\ (scope'.blocks = scope.blocks + 1 /\ PhaseInRange /\ RatePositive
           /\ StepsFinite(Ctx_nframes(ctx'))) =>
          PhaseInRange'

\* a frame first outputs the sine of the current phase, then advances the
\* phase by freq/srate and wraps it, so the first sample after a reset is the
\* sine of phase 0
FrameOrder ==
    (scope'.blocks = scope.blocks + 1 /\ Ctx_nframes(ctx') >= 1) =>
        /\ ProcBuf_read(heap', outputs[0], 0)
              = fast_sin(FMul(node.node.phase, TWOPI))
        /\ node.node.phase = FZero => ProcBuf_read(heap', outputs[0], 0) = FZero
        /\ Ctx_nframes(ctx') = 1 =>
              node'.node.phase = PhaseAfter(node.node.phase, 0)
        /\ Ctx_nframes(ctx') >= 2 =>
              ProcBuf_read(heap', outputs[0], 1)
                = fast_sin(FMul(PhaseAfter(node.node.phase, 0), TWOPI))

\* a block with a frame whose phase step is infinite leaves the phase NaN,
\* a NaN phase stays NaN in every call but reset, and reset sets the phase
\* to 0
PhaseLost ==
    node.kind = "Sin" =>
        /\ (scope'.blocks = scope.blocks + 1
               /\ \E x \in FrameFreqs(Ctx_nframes(ctx')) : IsInf(PhaseStep(x))) =>
              IsNaN(node'.node.phase)
        /\ (IsNaN(node.node.phase) /\ ~IsNaN(node'.node.phase)) =>
              node' = Node_reset(node)
        /\ SinReset => node'.node.phase = FZero

\* C21 as stated: as long as every sample rate set is above 0 the phase of a
\* Sin is in [0, 1), and the frames are computed in the order above
C21_PhaseAlwaysWrapped ==
    /\ [](scope.positive => PhaseInRange)
    /\ [][FrameOrder]_vars

\* C21: the phase of a Sin starts in [0, 1); set_sample_rate and reset leave
\* it in [0, 1), and so does a process call at a sample rate above 0 at which
\* the phase step of each of its frames is finite; a process call with a frame whose phase step is infinite leaves
\* the phase NaN, which it stays until reset sets it to 0; a frame first
\* outputs the sine of the current phase, then advances the phase by
\* freq/srate and wraps it, so the first sample after a reset is the sine of
\* phase 0
C21_PhaseWrapped ==
    /\ PhaseInRange
    /\ [][PhaseKept]_vars
    /\ [][PhaseLost]_vars
    /\ [][FrameOrder]_vars

\* full blocks at the top of the range at an audio rate: the phase wrapped
\* many times
C21_Witness ==
    /\ node.kind = "Sin"
    /\ heap[inputs[0]].data[1] = FOne
    /\ scope.blocks >= 2
    /\ scope.frames > MAX_BLOCK_SIZE
    /\ node.node.phase # FZero
    /\ PhaseInRange
    /\ RatePositive
    /\ StepsFinite(MAX_BLOCK_SIZE)

(***************************************************************************)
(* Atom settings: ranges, labels, defaults                                 *)
(***************************************************************************)
\* C22: for an atom ParamId setting_lbl(i) gives a label exactly for the
\* integers i of the range amin ..= amax that setting_min_max() gives, and
\* the default of as_atom_def() is a Setting within that range
C22_LabelsMatchRange ==
    (call.fn \in ParamFns /\ Len(ret) = 3 /\ ret[3].setting_min_max # None) =>
        LET amin == ret[3].setting_min_max[1][1]
            amax == ret[3].setting_min_max[1][2]
        IN  /\ \A i \in LblIdxs :
                  (ret[3].setting_lbl[i] # None) <=> (amin <= i /\ i <= amax)
            /\ ret[3].as_atom_def.t = "Setting"
            /\ amin <= ret[3].as_atom_def.i
            /\ ret[3].as_atom_def.i <= amax

\* the ParamId of the mono atom of the Out node of the graph slot
OutMonoParam == NodeId_inp_param(NodeId_of("Out", 0), "mono")[1]

\* the label the UI shows for the value of an atom
\* (a negative value cast to usize is beyond every label table)
LabelOf(pid, a) ==
    IF SAtom_i(a) < 0 THEN None ELSE ParamId_setting_lbl(pid, SAtom_i(a))

\* C23: under a mono value labelled "Mono" Out::process sends ch1 to both
\* output channels, under a value labelled "Stereo" channel 1 receives ch2
C23_MonoLabelMatchesProcess ==
    [][ (node.kind = "Out" /\ pc = "fill" /\ pc' = "done" /\ ~crashed') =>
            \A f \in 0 .. (Ctx_nframes(ctx') - 1) :
               /\ LabelOf(OutMonoParam, atoms[0]) = Some("Mono") =>
                     /\ ctx'.out[0][f] = <<ProcBuf_read(heap, inputs[0], f)>>
                     /\ ctx'.out[1][f] = <<ProcBuf_read(heap, inputs[0], f)>>
               /\ LabelOf(OutMonoParam, atoms[0]) = Some("Stereo") =>
                     /\ ctx'.out[0][f] = <<ProcBuf_read(heap, inputs[0], f)>>
                     /\ ctx'.out[1][f] = <<ProcBuf_read(heap, inputs[1], f)>>
      ]_vars

(***************************************************************************)
(* NodeInfo and ParamId share one index namespace                          *)
(***************************************************************************)
\* C24: for every absolute index i, if param_by_idx(i) of the kind gives a
\* ParamId p then in_name(i) is Some(p.name()) and in_help(i) is the help
\* text of that parameter; for every other i both are None
C24_InfoUsesParamIndex ==
    (call.fn = "node_factory" /\ Len(ret) = 2) =>
        \A i \in LookupIdx :
           IF NodeId_param_by_idx(call.nid, i) # None
           THEN /\ ret[2].in_names[i] =
                      Some(ParamId_name(NodeId_param_by_idx(call.nid, i)[1]))
                /\ ret[2].in_help[i] =
                      Some(HelpConst(call.nid.kind,
                                     ParamId_name(NodeId_param_by_idx(call.nid, i)[1])))
           ELSE /\ ret[2].in_names[i] = None
                /\ ret[2].in_help[i] = None

\* the same for in_help alone
InHelpUsesParamIndex ==
    (call.fn = "node_factory" /\ Len(ret) = 2) =>
        \A i \in LookupIdx :
           ret[2].in_help[i] =
              IF NodeId_param_by_idx(call.nid, i) # None
              THEN Some(HelpConst(call.nid.kind,
                                  ParamId_name(NodeId_param_by_idx(call.nid, i)[1])))
              ELSE None
====
